---- MODULE Spec2Model ----
(***************************************************************************)
(* The signal decision pipeline of the trading platform: Indicator Scorer, *)
(* Decision Engine (DecisionCoreAgent), Risk Auditor (RiskAuditAgent) and  *)
(* the hand-over to the Executor.  One behaviour is one trading cycle of   *)
(* one symbol, or, in the later sections, one cycle over all candidate     *)
(* symbols and the OvertradingState store used by concurrent contexts.     *)
(* The last sections model the frontend pages (Risk panel, Settings, App   *)
(* and Login, Backtest, Dashboard) with their requests in flight.           *)
(*                                                                         *)
(* Units.  Confidence is kept in tenths of a percent (85 % = 850), scores  *)
(* in hundredths of a score point (the signal weights are hundredths),     *)
(* percentages of the stop-loss band in basis points and prices in ticks.  *)
(* Every comparison is then exact integer arithmetic.                      *)
(***************************************************************************)
EXTENDS Integers, Sequences, FiniteSets, TLC

VARIABLES
    pc,        \* the stage of the pipeline the cycle is at
    symbol,    \* the candidate symbol of this cycle
    bars,      \* Snapshot: completed bars per timeframe
    raw,       \* Snapshot analysis: the per-timeframe readings the Scorer scores
    scoreSet,  \* ScoreSet: the Scorer's output, per timeframe
    ots,       \* OvertradingState of the symbol
    acct,      \* account: balance and the open position in the symbol
    ctx,       \* market context of the cycle, as far as the stages have read it
    seen,      \* the fields of ctx that have been read
    de,        \* Decision Engine working state (weighted score, alignment, ...)
    dec,       \* TradeDecision
    verdict,   \* RiskVerdict
    order,     \* the order handed to the broker, if any
    cycle,     \* the cycle over all candidate symbols: progress and results
    store,     \* the OvertradingState store, keyed by symbol, with its locks
    tasks,     \* the concurrent contexts that use the store
    server,    \* the backend as the web client sees it: risk status, requests in flight
    ui         \* the web client: the state of the page in view

vars == <<pc, symbol, bars, raw, scoreSet, ots, acct, ctx, seen, de, dec, verdict, order,
          cycle, store, tasks, server, ui>>

appVars == <<server, ui>>

cycleVars == <<cycle, store, tasks>>

----------------------------------------------------------------------------
(* Units and small helpers *)

Pct(x) == 10 * x

Abs(x) == IF x < 0 THEN -x ELSE x

Clamp(x, lo, hi) == IF x < lo THEN lo ELSE IF x > hi THEN hi ELSE x

----------------------------------------------------------------------------
(* Risk Auditor: risk parameters *)

max_leverage == 12

max_position_pct == 35

\* 1.2 %, in tenths of a percent
max_total_risk_pct == 12

\* 0.2 %, in basis points
min_stop_loss_pct == 20

\* 2.5 %, in basis points
max_stop_loss_pct == 250

\* 1.5 x ATR, in tenths
atr_stop_multiple == 15

\* reward/risk below 1.15 blocks, in hundredths
min_rr_ratio == 115

\* required margin above 95 % of the balance blocks
max_margin_pct == 95

\* the ATR% above which a low-confidence short is blocked
high_atr_pct == 3

\* oscillator score below which a long is "into overbought"
overbought_block == -70

\* oscillator score above which a short is "into oversold"
oversold_block == 50

MiddleZoneLow == 40

MiddleZoneHigh == 60

HighPosition == 80

LowPosition == 30

\* symbols with special handling in the audit, and the symbols the platform trades
SpecialSymbols == {"FILUSDT", "FETUSDT", "LINKUSDT"}

TrackedSymbols == {"RELIANCE"}

----------------------------------------------------------------------------
(* Risk Auditor: stop-loss auto-correction *)

MinStopDistance(entry) == (entry * min_stop_loss_pct) \div 10000

MaxStopDistance(entry) == (entry * max_stop_loss_pct) \div 10000

\* a variant that forgets the min/max band
AtrStopDistanceUnbounded(entry, atr) == (atr_stop_multiple * atr) \div 10

\* 1.5 x ATR, bounded by the min/max stop-loss percentages of entry
AtrStopDistance(entry, atr) ==
    Clamp((atr_stop_multiple * atr) \div 10, MinStopDistance(entry), MaxStopDistance(entry))

StopWrongSide(action, entry, sl) ==
    IF action = "long" THEN sl >= entry ELSE sl <= entry

StopOutOfBand(entry, sl) ==
    Abs(entry - sl) < MinStopDistance(entry) \/ Abs(entry - sl) > MaxStopDistance(entry)

NeedsStopCorrection(action, entry, sl) ==
    StopWrongSide(action, entry, sl) \/ StopOutOfBand(entry, sl)

\* a variant that moves the proposed stop by the ATR distance instead of
\* recomputing it from entry
CorrectStopLossFromStop(action, entry, atr, sl) ==
    IF NeedsStopCorrection(action, entry, sl)
    THEN IF action = "long" THEN sl - AtrStopDistance(entry, atr)
                            ELSE sl + AtrStopDistance(entry, atr)
    ELSE sl

CorrectStopLoss(action, entry, atr, sl) ==
    IF NeedsStopCorrection(action, entry, sl)
    THEN IF action = "long" THEN entry - AtrStopDistance(entry, atr)
                            ELSE entry + AtrStopDistance(entry, atr)
    ELSE sl

----------------------------------------------------------------------------
(* Risk Auditor: the block condition of each check, on a decision d, the    *)
(* account a and the market context c                                      *)

\* the bar below which the source calls a confidence "low"; the source leaves the
\* value to configuration
LowConfidencePct == 50

LowConfidence == Pct(LowConfidencePct)

IsHold(d) == d.action = "hold"

ZeroBalance(a) == a.balance <= 0

RegimeBlocks(d, c) ==
    \/ c.regime = "unknown" /\ d.confidence < LowConfidence
    \/ c.regime = "volatile" /\ d.confidence < LowConfidence
    \/ c.regime = "choppy" /\ d.confidence < Pct(60)

AtrPctHigh(d) == d.atr * 100 > high_atr_pct * d.entry

ShortGuardBlocks(d, c) ==
    /\ d.action = "short"
    /\ \/ d.confidence < Pct(55)
       \/ ~c.strong_setup /\ d.confidence < Pct(65)
       \/ c.short_losses >= 2
       \/ c.regime = "volatile_directionless" /\ ~c.strong_setup
       \/ c.sentiment.avail /\ c.sentiment.v > 0
       \/ AtrPctHigh(d) /\ d.confidence < LowConfidence

SymbolRuleBlocks(sym) == sym \in SpecialSymbols

PositionBlocks(d, c) ==
    /\ c.position_pct >= 0
    /\ \/ /\ c.position_pct >= MiddleZoneLow /\ c.position_pct <= MiddleZoneHigh
          /\ d.confidence < LowConfidence
       \/ d.action = "long" /\ c.position_pct > HighPosition /\ d.confidence < LowConfidence
       \/ d.action = "short" /\ c.position_pct < LowPosition

OscillatorBlocks(d, c) ==
    \/ d.action = "long" /\ c.oscillator < overbought_block
    \/ d.action = "short" /\ c.oscillator > oversold_block

Reward(d) == Abs(d.take_profit - d.entry)

Risk(d) == Abs(d.entry - d.stop_loss)

RewardRiskBlocks(d) == Risk(d) > 0 /\ Reward(d) * 100 < min_rr_ratio * Risk(d)

\* an open position in the direction of the decision
DuplicateBlocks(d, a) == a.position = d.action

\* a variant that lets a confident decision reverse an open position
ReverseBlocksUnlessConfident(d, a) ==
    /\ d.confidence < Pct(85)
    /\ \/ a.position = "long" /\ d.action = "short"
       \/ a.position = "short" /\ d.action = "long"

ReverseBlocks(d, a) ==
    \/ a.position = "long" /\ d.action = "short"
    \/ a.position = "short" /\ d.action = "long"

\* required margin = size / leverage, against 95 % of the balance
MarginBlocks(d, a) == d.size * 100 > max_margin_pct * a.balance * d.leverage

LeverageBlocks(d) == d.leverage > max_leverage

PositionSizeWarns(d, a) == d.size * 100 > max_position_pct * a.balance

\* risk of this trade (size x stop distance / entry) plus the risk already open
TotalRiskWarns(d, a, c, sl) ==
    (d.size * Abs(d.entry - sl) + c.open_risk * d.entry) * 1000
        > max_total_risk_pct * a.balance * d.entry

TrapBlocks(d, c) == d.action = "long" /\ "bull_trap_risk" \in c.traps

----------------------------------------------------------------------------
(* State of a cycle before any stage has run *)

Timeframes == {"5m", "15m", "1h"}

NoSentiment == [avail |-> FALSE, v |-> 0]

NoVolume == [rvol |-> 10, adx |-> 0, low_volume |-> FALSE]

NoContext ==
    [regime |-> "unread", strong_setup |-> FALSE,
     short_losses |-> 0, sentiment |-> NoSentiment, prophet |-> NoSentiment,
     position_pct |-> -1, mean_reversion |-> "none", volume |-> NoVolume,
     oscillator |-> 0, open_risk |-> 0, traps |-> {}]

NoVerdict == [status |-> "pending", reason |-> "", warnings |-> {}, stop_loss |-> 0,
              corrected |-> FALSE]

NoOrder == [side |-> "none", stop_loss |-> 0]

NoBars == [t \in Timeframes |-> 0]

NoRaw == [t \in Timeframes |-> [trend |-> 0, osc |-> 0]]

NoScoreSet == [t \in Timeframes |-> [trend |-> 0, osc |-> 0, insufficient |-> FALSE]]

NoOvertrading ==
    [cycles_since_entry |-> 0, entries_6h |-> 0, loss_streak |-> 0, cycles_since_loss |-> 0]

NoEngine == [weighted |-> 0, scored |-> FALSE, alignment |-> "unset", proposal |-> "unset",
             confidence |-> 0, reason |-> ""]

Actions == {"long", "short", "hold"}

\* prices in ticks
EntryPrices == {1000}

AtrValues == {0, 10, 40}

DecisionAtrs == {10, 40}

\* what a stage reads for field f: the cycle's value once it has been read,
\* any value of S the first time
ReadSet(f, S) == IF f \in seen THEN {ctx[f]} ELSE S

----------------------------------------------------------------------------
(* Risk Auditor: the check sequence *)

\* a variant that runs the reward/risk check ahead of the short guards
CheckSequenceRewardRiskFirst ==
    <<"hold", "balance", "regime", "rr", "short", "symbol", "position", "oscillator",
      "duplicate", "reverse", "stop_loss", "margin", "leverage", "size",
      "total_risk", "trap">>

\* a variant that checks the balance before the hold auto-pass
CheckSequenceBalanceFirst ==
    <<"balance", "hold", "regime", "short", "symbol", "position", "oscillator", "rr",
      "duplicate", "reverse", "stop_loss", "margin", "leverage", "size",
      "total_risk", "trap">>

CheckSequence ==
    <<"hold", "balance", "regime", "short", "symbol", "position", "oscillator", "rr",
      "duplicate", "reverse", "stop_loss", "margin", "leverage", "size",
      "total_risk", "trap">>

IndexOf(seq, x) == CHOOSE i \in 1..Len(seq) : seq[i] = x

FirstCheck == CheckSequence[1]

CheckAfter(step) ==
    IF IndexOf(CheckSequence, step) < Len(CheckSequence)
    THEN CheckSequence[IndexOf(CheckSequence, step) + 1]
    ELSE "pass"

\* a check blocks: terminal, the reason recorded
Blocked(reason) ==
    /\ verdict' = [verdict EXCEPT !.status = "block", !.reason = reason]
    /\ pc' = "execute"

\* a check passes control to the next one
Continue(step) ==
    /\ verdict' = verdict
    /\ pc' = CheckAfter(step)

deVars == <<bars, raw, scoreSet, ots, de>>

\* account readings, the balance in thousands
Balances == {0, 100}

Positions == {"none", "long", "short"}

AuditHold ==
    /\ pc = "hold"
    /\ IF IsHold(dec)
       THEN verdict' = [verdict EXCEPT !.status = "pass"] /\ pc' = "execute"
       ELSE Continue("hold")
    /\ UNCHANGED <<appVars, cycleVars, symbol, acct, ctx, seen, dec, order, deVars>>

AuditBalance ==
    /\ pc = "balance"
    /\ \E b \in (IF "balance" \in seen THEN {acct.balance} ELSE Balances) :
          LET a == [acct EXCEPT !.balance = b] IN
          /\ acct' = a
          /\ seen' = seen \cup {"balance"}
          /\ IF ZeroBalance(a) THEN Blocked("zero_balance") ELSE Continue("balance")
    /\ UNCHANGED <<appVars, cycleVars, symbol, ctx, dec, order, deVars>>

\* the values the cycle's market context can take when a stage first reads it
Regimes ==
    {"trending_up", "trending_down", "choppy", "volatile", "volatile_directionless",
     "unknown"}

SentimentReadings == {NoSentiment, [avail |-> TRUE, v |-> 40], [avail |-> TRUE, v |-> -40]}

\* the sentiment readings that tell the short guards apart
AuditSentimentReadings == {NoSentiment, [avail |-> TRUE, v |-> 100]}

PositionReadings == {-1, 10, 50, 90}

OscillatorReadings == {-80, 0, 60}

TrapSets == {{}, {"bull_trap_risk"}, {"fomo_top"}, {"panic_bottom"},
             {"bull_trap_risk", "panic_bottom"}, {"weak_rebound"}}

AuditTrapSets == {{}, {"bull_trap_risk"}}

\* risk already open in other symbols, position value and balance in thousands
OpenRiskReadings == {0, 1}

Sizes == {30, 90, 200}

Leverages == {1, 13}

AuditRegime ==
    /\ pc = "regime"
    /\ \E r \in ReadSet("regime", Regimes) :
          LET c == [ctx EXCEPT !.regime = r] IN
          /\ ctx' = c
          /\ seen' = seen \cup {"regime"}
          /\ IF RegimeBlocks(dec, c) THEN Blocked("regime_filter") ELSE Continue("regime")
    /\ UNCHANGED <<appVars, cycleVars, symbol, acct, dec, order, deVars>>

AuditShort ==
    /\ pc = "short"
    /\ IF dec.action = "short"
       THEN \E ss \in ReadSet("strong_setup", BOOLEAN), sl \in ReadSet("short_losses", {0, 2}),
               se \in ReadSet("sentiment", AuditSentimentReadings) :
               LET c == [ctx EXCEPT !.strong_setup = ss, !.short_losses = sl, !.sentiment = se] IN
               /\ ctx' = c
               /\ seen' = seen \cup {"strong_setup", "short_losses", "sentiment"}
               /\ IF ShortGuardBlocks(dec, c) THEN Blocked("short_guard") ELSE Continue("short")
       ELSE Continue("short") /\ UNCHANGED <<appVars, cycleVars, ctx, seen>>
    /\ UNCHANGED <<appVars, cycleVars, symbol, acct, dec, order, deVars>>

AuditSymbol ==
    /\ pc = "symbol"
    /\ IF SymbolRuleBlocks(symbol) THEN Blocked("symbol_rule") ELSE Continue("symbol")
    /\ UNCHANGED <<appVars, cycleVars, symbol, acct, ctx, seen, dec, order, deVars>>

AuditPosition ==
    /\ pc = "position"
    /\ \E p \in ReadSet("position_pct", PositionReadings) :
          LET c == [ctx EXCEPT !.position_pct = p] IN
          /\ ctx' = c
          /\ seen' = seen \cup {"position_pct"}
          /\ IF PositionBlocks(dec, c) THEN Blocked("position_filter") ELSE Continue("position")
    /\ UNCHANGED <<appVars, cycleVars, symbol, acct, dec, order, deVars>>

AuditOscillator ==
    /\ pc = "oscillator"
    /\ \E o \in ReadSet("oscillator", IF "scores" \in seen
                                       THEN {scoreSet[t].osc : t \in Timeframes}
                                       ELSE OscillatorReadings) :
          LET c == [ctx EXCEPT !.oscillator = o] IN
          /\ ctx' = c
          /\ seen' = seen \cup {"oscillator"}
          /\ IF OscillatorBlocks(dec, c) THEN Blocked("oscillator_conflict")
                                         ELSE Continue("oscillator")
    /\ UNCHANGED <<appVars, cycleVars, symbol, acct, dec, order, deVars>>

AuditRewardRisk ==
    /\ pc = "rr"
    /\ IF RewardRiskBlocks(dec) THEN Blocked("rr_ratio") ELSE Continue("rr")
    /\ UNCHANGED <<appVars, cycleVars, symbol, acct, ctx, seen, dec, order, deVars>>

AuditDuplicate ==
    /\ pc = "duplicate"
    /\ \E p \in (IF "position" \in seen THEN {acct.position} ELSE Positions) :
          LET a == [acct EXCEPT !.position = p] IN
          /\ acct' = a
          /\ seen' = seen \cup {"position"}
          /\ IF DuplicateBlocks(dec, a) THEN Blocked("duplicate_position")
                                        ELSE Continue("duplicate")
    /\ UNCHANGED <<appVars, cycleVars, symbol, ctx, dec, order, deVars>>

AuditReverse ==
    /\ pc = "reverse"
    /\ IF ReverseBlocks(dec, acct) THEN Blocked("reverse_position") ELSE Continue("reverse")
    /\ UNCHANGED <<appVars, cycleVars, symbol, acct, ctx, seen, dec, order, deVars>>

\* never blocks: an unsafe stop is recomputed from ATR and carried in the verdict
AuditStopLoss ==
    /\ pc = "stop_loss"
    /\ verdict' = [verdict EXCEPT
           !.stop_loss = CorrectStopLoss(dec.action, dec.entry, dec.atr, dec.stop_loss),
           !.corrected = NeedsStopCorrection(dec.action, dec.entry, dec.stop_loss)]
    /\ pc' = CheckAfter("stop_loss")
    /\ UNCHANGED <<appVars, cycleVars, symbol, acct, ctx, seen, dec, order, deVars>>

\* the first check that consults the proposed position size and leverage
AuditMargin ==
    /\ pc = "margin"
    /\ \E sz \in (IF "size" \in seen THEN {dec.size} ELSE Sizes),
          lv \in (IF "leverage" \in seen THEN {dec.leverage} ELSE Leverages) :
          LET d == [dec EXCEPT !.size = sz, !.leverage = lv] IN
          /\ dec' = d
          /\ seen' = seen \cup {"size", "leverage"}
          /\ IF MarginBlocks(d, acct) THEN Blocked("margin") ELSE Continue("margin")
    /\ UNCHANGED <<appVars, cycleVars, symbol, acct, ctx, order, deVars>>

AuditLeverage ==
    /\ pc = "leverage"
    /\ IF LeverageBlocks(dec) THEN Blocked("leverage") ELSE Continue("leverage")
    /\ UNCHANGED <<appVars, cycleVars, symbol, acct, ctx, seen, dec, order, deVars>>

\* a variant in which the size limit is a hard block
AuditSizeBlocks ==
    /\ pc = "size"
    /\ IF PositionSizeWarns(dec, acct) THEN Blocked("position_size") ELSE Continue("size")
    /\ UNCHANGED <<appVars, cycleVars, symbol, acct, ctx, seen, dec, order, deVars>>

\* a warning, never a block
AuditSize ==
    /\ pc = "size"
    /\ verdict' = [verdict EXCEPT !.warnings =
           IF PositionSizeWarns(dec, acct) THEN @ \cup {"position_size"} ELSE @]
    /\ pc' = CheckAfter("size")
    /\ UNCHANGED <<appVars, cycleVars, symbol, acct, ctx, seen, dec, order, deVars>>

\* a warning, never a block
AuditTotalRisk ==
    /\ pc = "total_risk"
    /\ \E r \in ReadSet("open_risk", OpenRiskReadings) :
          LET c == [ctx EXCEPT !.open_risk = r] IN
          /\ ctx' = c
          /\ seen' = seen \cup {"open_risk"}
          /\ verdict' = [verdict EXCEPT !.warnings =
                 IF TotalRiskWarns(dec, acct, c, verdict.stop_loss)
                 THEN @ \cup {"total_risk"} ELSE @]
    /\ pc' = CheckAfter("total_risk")
    /\ UNCHANGED <<appVars, cycleVars, symbol, acct, dec, order, deVars>>

AuditTrap ==
    /\ pc = "trap"
    /\ \E t \in ReadSet("traps", AuditTrapSets) :
          LET c == [ctx EXCEPT !.traps = t] IN
          /\ ctx' = c
          /\ seen' = seen \cup {"traps"}
          /\ IF TrapBlocks(dec, c) THEN Blocked("market_trap") ELSE Continue("trap")
    /\ UNCHANGED <<appVars, cycleVars, symbol, acct, dec, order, deVars>>

\* every check passed control on: the verdict is pass
AuditPass ==
    /\ pc = "pass"
    /\ verdict' = [verdict EXCEPT !.status = "pass"]
    /\ pc' = "execute"
    /\ UNCHANGED <<appVars, cycleVars, symbol, acct, ctx, seen, dec, order, deVars>>

Audit ==
    \/ AuditHold \/ AuditBalance \/ AuditRegime \/ AuditShort \/ AuditSymbol
    \/ AuditPosition \/ AuditOscillator \/ AuditRewardRisk \/ AuditDuplicate
    \/ AuditReverse \/ AuditStopLoss \/ AuditMargin \/ AuditLeverage \/ AuditSize
    \/ AuditTotalRisk \/ AuditTrap \/ AuditPass

----------------------------------------------------------------------------
(* Executor: an order is placed only if the audit passed *)

\* a variant that places the order whatever the verdict
ShouldExecuteAnyVerdict(v, d) == d.action \in {"long", "short"}

ShouldExecute(v, d) == v.status = "pass" /\ d.action \in {"long", "short"}

Execute ==
    /\ pc = "execute"
    /\ order' = IF ShouldExecute(verdict, dec)
                THEN [side |-> dec.action, stop_loss |-> verdict.stop_loss]
                ELSE NoOrder
    /\ pc' = "done"
    /\ UNCHANGED <<appVars, cycleVars, symbol, acct, ctx, seen, dec, verdict, deVars>>

----------------------------------------------------------------------------
(* Indicator Scorer *)

\* EMA60 is the longest lookback of the indicator set
LongestLookback == 60

InsufficientData == [trend |-> 0, osc |-> 0, insufficient |-> TRUE]

\* a variant that scores a short history as zero
ScoreZeroWhenShort(b, r) ==
    IF b < LongestLookback THEN [trend |-> 0, osc |-> 0, insufficient |-> FALSE]
    ELSE [trend |-> r.trend, osc |-> r.osc, insufficient |-> FALSE]

\* the score of one timeframe from its completed bars b and its readings r
Score(b, r) ==
    IF b < LongestLookback THEN InsufficientData
    ELSE [trend |-> r.trend, osc |-> r.osc, insufficient |-> FALSE]

Scorer ==
    /\ pc = "scorer"
    /\ scoreSet' = [t \in Timeframes |-> Score(bars[t], raw[t])]
    /\ seen' = seen \cup {"scores"}
    /\ pc' = "guard"
    /\ UNCHANGED <<appVars, cycleVars, symbol, bars, raw, ots, acct, ctx, de, dec, verdict, order>>

----------------------------------------------------------------------------
(* Decision Engine (DecisionCoreAgent): the decision flow *)

MIN_CYCLES_SAME_SYMBOL == 4

MAX_POSITIONS_6H == 2

LOSS_STREAK_COOLDOWN == 6

\* consecutive losses that start the cooldown
LossStreakLimit == 2

\* a variant that forgets the loss-streak cooldown
OvertradingViolationNoCooldown(o) ==
    \/ o.cycles_since_entry < MIN_CYCLES_SAME_SYMBOL
    \/ o.entries_6h >= MAX_POSITIONS_6H

OvertradingViolation(o) ==
    \/ o.cycles_since_entry < MIN_CYCLES_SAME_SYMBOL
    \/ o.entries_6h >= MAX_POSITIONS_6H
    \/ o.loss_streak >= LossStreakLimit /\ o.cycles_since_loss < LOSS_STREAK_COOLDOWN

\* signal weights, in hundredths
trend_5m == 3

trend_15m == 12

trend_1h == 30

oscillator_5m == 3

oscillator_15m == 7

oscillator_1h == 10

prophet_weight == 5

sentiment_weight == 25

\* a variant that counts the oscillator scores against the total
WeightedScoreOscillatorInverted(ss, c) ==
    trend_5m * ss["5m"].trend + trend_15m * ss["15m"].trend + trend_1h * ss["1h"].trend
    - oscillator_5m * ss["5m"].osc - oscillator_15m * ss["15m"].osc
    - oscillator_1h * ss["1h"].osc
    + (IF c.prophet.avail THEN prophet_weight * c.prophet.v ELSE 0)
    + (IF c.sentiment.avail THEN sentiment_weight * c.sentiment.v ELSE 0)

\* a signal that is not available contributes nothing
WeightedScore(ss, c) ==
    trend_5m * ss["5m"].trend + trend_15m * ss["15m"].trend + trend_1h * ss["1h"].trend
    + oscillator_5m * ss["5m"].osc + oscillator_15m * ss["15m"].osc
    + oscillator_1h * ss["1h"].osc
    + (IF c.prophet.avail THEN prophet_weight * c.prophet.v ELSE 0)
    + (IF c.sentiment.avail THEN sentiment_weight * c.sentiment.v ELSE 0)

\* the weighted score below which a signal counts as weak; the source leaves the
\* value to configuration
WeakSignalScore == 15

InMiddleZone(c) ==
    c.position_pct >= MiddleZoneLow /\ c.position_pct <= MiddleZoneHigh

\* a variant that only stops a score of exactly zero
EarlyFilterHoldsFlatOnly(c, w) ==
    c.regime = "choppy" /\ InMiddleZone(c) /\ w = 0

EarlyFilterHolds(c, w) ==
    c.regime = "choppy" /\ InMiddleZone(c) /\ Abs(w) < 100 * WeakSignalScore

SameDirection(a, b) == a * b > 0

Alignment(ss) ==
    IF SameDirection(ss["1h"].trend, ss["15m"].trend)
    THEN IF SameDirection(ss["15m"].trend, ss["5m"].trend) THEN "strong" ELSE "partial"
    ELSE "none"

\* a variant that counts only a strong alignment
AlignedStrongOnly(al) == al = "strong"

Aligned(al) == al \in {"strong", "partial"}

\* action thresholds of the regime, in hundredths of a score point, lowered by 2
\* when the timeframes are aligned; a regime the mapping does not list takes the
\* higher thresholds of the choppy one
LongThreshold(regime, al) ==
    100 * ((CASE regime = "trending_up" -> 22
              [] regime = "trending_down" -> 32
              [] OTHER -> 30) - (IF Aligned(al) THEN 2 ELSE 0))

ShortThreshold(regime, al) ==
    100 * ((CASE regime = "trending_up" -> 32
              [] regime = "trending_down" -> 18
              [] OTHER -> 30) - (IF Aligned(al) THEN 2 ELSE 0))

\* a variant that lowers no threshold for alignment
ScoreToActionUnaligned(regime, al, w) ==
    IF w > LongThreshold(regime, "none") THEN "long"
    ELSE IF w < -ShortThreshold(regime, "none") THEN "short"
    ELSE "hold"

ScoreToAction(regime, al, w) ==
    IF w > LongThreshold(regime, al) THEN "long"
    ELSE IF w < -ShortThreshold(regime, al) THEN "short"
    ELSE "hold"

\* choppy market: a mean-reversion signal decides, the score mapping otherwise
BranchAction(c, al, w) ==
    IF c.regime = "choppy" /\ c.mean_reversion = "buy" THEN "long"
    ELSE IF c.regime = "choppy" /\ c.mean_reversion = "sell" THEN "short"
    ELSE ScoreToAction(c.regime, al, w)

StrongConfidence == Pct(85)

MediumConfidences == {Pct(55), Pct(75)}

\* the confidences the mapping can give an action reached through the score
\* mapping (scored) or through mean reversion: 85 % for an aligned signal over
\* its threshold, one of the medium values otherwise
ConfidenceBand(action, al, scored) ==
    IF action = "hold" THEN {0}
    ELSE IF scored /\ Aligned(al) THEN {StrongConfidence}
    ELSE MediumConfidences

VolumeBlocks(c) ==
    \/ c.volume.rvol < 5
    \/ c.volume.adx < 20 /\ c.volume.low_volume

\* a variant that only knows the bull trap
TrapVetoesBullTrapOnly(action, traps) ==
    action = "long" /\ "bull_trap_risk" \in traps

TrapVetoes(action, traps) ==
    \/ action = "long" /\ ("bull_trap_risk" \in traps \/ "fomo_top" \in traps)
    \/ action = "short" /\ "panic_bottom" \in traps

\* a variant that only looks at longs
FlowDivergesLongOnly(action, c) ==
    c.sentiment.avail /\ action = "long" /\ c.sentiment.v < 0

FlowDiverges(action, c) ==
    /\ c.sentiment.avail
    /\ \/ action = "long" /\ c.sentiment.v < 0
       \/ action = "short" /\ c.sentiment.v > 0

\* the readings the Decision Engine can find when it first reads a field
ProphetReadings == {NoSentiment, [avail |-> TRUE, v |-> -100]}

RangePositions == {10, 50}

MeanReversionSignals == {"none", "buy", "sell"}

\* relative volume in tenths, ADX, and the low-volume flag of the filter
VolumeReadings ==
    {[rvol |-> 12, adx |-> 30, low_volume |-> FALSE],
     [rvol |-> 3, adx |-> 30, low_volume |-> TRUE],
     [rvol |-> 8, adx |-> 15, low_volume |-> TRUE],
     [rvol |-> 12, adx |-> 15, low_volume |-> FALSE]}

DecisionTrapSets == {{}, {"bull_trap_risk"}, {"fomo_top"}, {"panic_bottom"}}

\* take-profit distance as a multiple of the stop distance
TakeProfitMultiples == {1, 2}

auditVars == <<acct, verdict, order>>

\* the engine returns hold: the decision goes to the auditor as it is
EndWithHold(reason) ==
    /\ dec' = [dec EXCEPT !.action = "hold", !.confidence = 0]
    /\ de' = [de EXCEPT !.reason = reason]
    /\ pc' = FirstCheck

\* 1. overtrading guard
OvertradingGuard ==
    /\ pc = "guard"
    /\ IF OvertradingViolation(ots)
       THEN EndWithHold("overtrading")
       ELSE pc' = "extract" /\ UNCHANGED <<appVars, cycleVars, dec, de>>
    /\ UNCHANGED <<appVars, cycleVars, symbol, bars, raw, scoreSet, ots, ctx, seen, auditVars>>

\* 2. extract scores: a timeframe whose score is the insufficient-data marker
\* yields hold
ExtractScores ==
    /\ pc = "extract"
    /\ IF \E t \in Timeframes : scoreSet[t].insufficient
       THEN EndWithHold("insufficient_data") /\ UNCHANGED <<appVars, cycleVars, ctx, seen>>
       ELSE \E se \in ReadSet("sentiment", SentimentReadings),
               pr \in ReadSet("prophet", ProphetReadings) :
               /\ ctx' = [ctx EXCEPT !.sentiment = se, !.prophet = pr]
               /\ seen' = seen \cup {"sentiment", "prophet"}
               /\ pc' = "analyze"
               /\ UNCHANGED <<appVars, cycleVars, dec, de>>
    /\ UNCHANGED <<appVars, cycleVars, symbol, bars, raw, scoreSet, ots, auditVars>>

\* 3. market regime and position analysis
RegimeAndPosition ==
    /\ pc = "analyze"
    /\ \E r \in ReadSet("regime", Regimes), p \in ReadSet("position_pct", RangePositions) :
          /\ ctx' = [ctx EXCEPT !.regime = r, !.position_pct = p]
          /\ seen' = seen \cup {"regime", "position_pct"}
    /\ pc' = "weigh"
    /\ UNCHANGED <<appVars, cycleVars, symbol, bars, raw, scoreSet, ots, de, dec, auditVars>>

\* 4. weighted score
CalculateWeightedScore ==
    /\ pc = "weigh"
    /\ de' = [de EXCEPT !.weighted = WeightedScore(scoreSet, ctx), !.scored = TRUE]
    /\ dec' = [dec EXCEPT !.weighted = WeightedScore(scoreSet, ctx)]
    /\ pc' = "early_filter"
    /\ UNCHANGED <<appVars, cycleVars, symbol, bars, raw, scoreSet, ots, ctx, seen, auditVars>>

\* 5. early filter
EarlyFilter ==
    /\ pc = "early_filter"
    /\ IF EarlyFilterHolds(ctx, de.weighted)
       THEN EndWithHold("early_filter")
       ELSE pc' = "align" /\ UNCHANGED <<appVars, cycleVars, dec, de>>
    /\ UNCHANGED <<appVars, cycleVars, symbol, bars, raw, scoreSet, ots, ctx, seen, auditVars>>

\* 6. multi-period alignment
MultiPeriodAlignment ==
    /\ pc = "align"
    /\ de' = [de EXCEPT !.alignment = Alignment(scoreSet)]
    /\ pc' = "branch"
    /\ UNCHANGED <<appVars, cycleVars, symbol, bars, raw, scoreSet, ots, ctx, seen, dec, auditVars>>

\* 7, 8. choppy market branch and trend market branch
Branch ==
    /\ pc = "branch"
    /\ \E m \in (IF ctx.regime = "choppy" THEN ReadSet("mean_reversion", MeanReversionSignals)
                                          ELSE {ctx.mean_reversion}) :
          LET c == [ctx EXCEPT !.mean_reversion = m]
              a == BranchAction(c, de.alignment, de.weighted)
              scored == ~(c.regime = "choppy" /\ m # "none")
          IN /\ ctx' = c
             /\ seen' = IF ctx.regime = "choppy" THEN seen \cup {"mean_reversion"} ELSE seen
             /\ \E cf \in ConfidenceBand(a, de.alignment, scored) :
                   /\ dec' = [dec EXCEPT !.action = a, !.confidence = cf]
                   /\ de' = [de EXCEPT !.proposal = a, !.confidence = cf,
                                       !.reason = IF a = "hold" THEN "weak_signal" ELSE @]
             /\ pc' = IF a = "hold" THEN FirstCheck ELSE "volume"
    /\ UNCHANGED <<appVars, cycleVars, symbol, bars, raw, scoreSet, ots, auditVars>>

\* 9. volume / trend filters
VolumeFilter ==
    /\ pc = "volume"
    /\ \E v \in ReadSet("volume", VolumeReadings) :
          LET c == [ctx EXCEPT !.volume = v] IN
          /\ ctx' = c
          /\ seen' = seen \cup {"volume"}
          /\ IF VolumeBlocks(c)
             THEN EndWithHold("low_volume")
             ELSE pc' = "trap_filter" /\ UNCHANGED <<appVars, cycleVars, dec, de>>
    /\ UNCHANGED <<appVars, cycleVars, symbol, bars, raw, scoreSet, ots, auditVars>>

\* 10. market trap filtering
TrapFilter ==
    /\ pc = "trap_filter"
    /\ \E t \in ReadSet("traps", DecisionTrapSets) :
          /\ ctx' = [ctx EXCEPT !.traps = t]
          /\ seen' = seen \cup {"traps"}
          /\ IF TrapVetoes(dec.action, t)
             THEN EndWithHold("market_trap")
             ELSE pc' = "flow" /\ UNCHANGED <<appVars, cycleVars, dec, de>>
    /\ UNCHANGED <<appVars, cycleVars, symbol, bars, raw, scoreSet, ots, auditVars>>

\* 11. institutional flow divergence: half the confidence, the action kept
FlowDivergence ==
    /\ pc = "flow"
    /\ dec' = [dec EXCEPT !.confidence = IF FlowDiverges(dec.action, ctx) THEN @ \div 2 ELSE @]
    /\ pc' = "params"
    /\ UNCHANGED <<appVars, cycleVars, symbol, bars, raw, scoreSet, ots, ctx, seen, de, auditVars>>

\* 12. dynamic trade parameters
TradeParams ==
    /\ pc = "params"
    /\ \E e \in EntryPrices, atr \in DecisionAtrs, m \in TakeProfitMultiples :
          LET dist == AtrStopDistance(e, atr) IN
          dec' = [dec EXCEPT !.entry = e, !.atr = atr,
                             !.stop_loss = IF dec.action = "long" THEN e - dist ELSE e + dist,
                             !.take_profit = IF dec.action = "long" THEN e + m * dist
                                                                   ELSE e - m * dist,
                             !.leverage = 1]
    /\ seen' = seen \cup {"leverage"}
    /\ pc' = FirstCheck
    /\ UNCHANGED <<appVars, cycleVars, symbol, bars, raw, scoreSet, ots, ctx, de, auditVars>>

DecisionEngine ==
    \/ OvertradingGuard \/ ExtractScores \/ RegimeAndPosition \/ CalculateWeightedScore
    \/ EarlyFilter \/ MultiPeriodAlignment \/ Branch \/ VolumeFilter \/ TrapFilter
    \/ FlowDivergence \/ TradeParams

DecisionStages ==
    {"scorer", "guard", "extract", "analyze", "weigh", "early_filter", "align", "branch",
     "volume", "trap_filter", "flow", "params"}

----------------------------------------------------------------------------
(* The Scorer and the Decision Engine on any snapshot *)

BarCounts == {LongestLookback - 1, LongestLookback}

RawReadings ==
    { [t \in Timeframes |->
          CASE t = "1h" -> [trend |-> t1, osc |-> o1]
            [] t = "15m" -> [trend |-> t2, osc |-> o2]
            [] OTHER -> [trend |-> t3, osc |-> 0]] :
      t1 \in {-60, 0, 60}, t2 \in {-30, 30}, t3 \in {-10, 10},
      o1 \in {-80, 0, 60}, o2 \in {0, 40} }

OvertradingStates ==
    { o \in [cycles_since_entry : {MIN_CYCLES_SAME_SYMBOL - 1, MIN_CYCLES_SAME_SYMBOL},
             entries_6h : {MAX_POSITIONS_6H - 1, MAX_POSITIONS_6H},
             loss_streak : {0, LossStreakLimit},
             cycles_since_loss : {LOSS_STREAK_COOLDOWN - 1, LOSS_STREAK_COOLDOWN}] :
      o.loss_streak > 0 \/ o.cycles_since_loss = LOSS_STREAK_COOLDOWN }

NoDecision ==
    [action |-> "pending", confidence |-> 0, weighted |-> 0, entry |-> 0, atr |-> 0,
     stop_loss |-> 0, take_profit |-> 0, size |-> 0, leverage |-> 1]

NoAccount == [balance |-> 0, position |-> "none"]

\* the candidate symbols of a cycle
CycleSymbols == {"RELIANCE", "TCS"}

NoResult == [decision |-> NoDecision, verdict |-> NoVerdict, error |-> "none"]

NoCycle ==
    [status |-> "idle", current |-> "none", remaining |-> {}, cancel_requested |-> FALSE,
     results |-> [s \in CycleSymbols |-> NoResult],
     attempts |-> [s \in CycleSymbols |-> 0],
     snapshots |-> [s \in CycleSymbols |-> [bars |-> NoBars, raw |-> NoRaw]],
     orders |-> [s \in CycleSymbols |-> NoOrder],
     opened |-> {}, closed |-> {}]

NoStore ==
    [counters |-> [s \in CycleSymbols |-> NoOvertrading],
     lock |-> [s \in CycleSymbols |-> "free"]]

NoTasks == <<>>

NoServer == <<>>

NoUi == <<>>

InitDecision ==
    /\ pc = "scorer"
    /\ symbol \in TrackedSymbols
    /\ bars \in [Timeframes -> BarCounts]
    /\ raw \in RawReadings
    /\ ots \in OvertradingStates
    /\ scoreSet = NoScoreSet
    /\ de = NoEngine
    /\ dec = NoDecision
    /\ acct = NoAccount
    /\ ctx = NoContext
    /\ seen = {}
    /\ verdict = NoVerdict
    /\ order = NoOrder
    /\ cycle = NoCycle
    /\ store = NoStore
    /\ tasks = NoTasks
    /\ server = NoServer
    /\ ui = NoUi

NextDecision == Scorer \/ DecisionEngine

SpecDecision == InitDecision /\ [][NextDecision]_vars

----------------------------------------------------------------------------
(* The Risk Auditor on any decision handed to it *)

ConfidenceValues == {Pct(40), 575, 625, Pct(85)}

StopOffsets == {-30, -15, 0, 15}

TakeProfitDistances == {10, 30}

Decisions ==
    { [action |-> a, confidence |-> cf, weighted |-> 0, entry |-> e, atr |-> atr,
       stop_loss |-> e + so,
       take_profit |-> IF a = "short" THEN e - tp ELSE e + tp,
       size |-> 0, leverage |-> 1] :
      a \in Actions, cf \in ConfidenceValues, e \in EntryPrices, atr \in AtrValues,
      so \in StopOffsets, tp \in TakeProfitDistances }

InitRisk ==
    /\ pc = FirstCheck
    /\ symbol \in TrackedSymbols
    /\ dec \in Decisions
    /\ acct \in [balance : Balances, position : Positions]
    /\ \E r \in Regimes, t \in AuditTrapSets : ctx = [NoContext EXCEPT !.regime = r, !.traps = t]
    /\ seen = {"regime", "traps", "balance", "position"}
    /\ verdict = NoVerdict
    /\ order = NoOrder
    /\ cycle = NoCycle
    /\ store = NoStore
    /\ tasks = NoTasks
    /\ server = NoServer
    /\ ui = NoUi
    /\ bars = NoBars
    /\ raw = NoRaw
    /\ scoreSet = NoScoreSet
    /\ ots = NoOvertrading
    /\ de = NoEngine

NextRisk == Audit \/ Execute

SpecRisk == InitRisk /\ [][NextRisk]_vars

----------------------------------------------------------------------------
(* Stop-loss auto-correction run again on its own result *)

StopProbeEntries == {1000, 2000}

StopProbeAtrs == {0, 2, 10, 20, 40}

StopProbeOffsets == {-60, -50, -30, -25, -15, -4, -3, -2, -1, 0, 1, 2, 3, 4, 15, 25, 30, 50, 60}

\* the corrected parameters of the verdict are handed to the auditor once more
Resubmit ==
    /\ pc = CheckAfter("stop_loss")
    /\ "resubmitted" \notin seen
    /\ dec' = [dec EXCEPT !.stop_loss = verdict.stop_loss]
    /\ seen' = seen \cup {"resubmitted"}
    /\ pc' = "stop_loss"
    /\ UNCHANGED <<appVars, cycleVars, symbol, acct, ctx, verdict, order, deVars>>

InitStop ==
    /\ pc = "stop_loss"
    /\ symbol \in TrackedSymbols
    /\ \E a \in {"long", "short"}, e \in StopProbeEntries, atr \in StopProbeAtrs,
          so \in StopProbeOffsets :
          dec = [action |-> a, confidence |-> Pct(85), weighted |-> 0, entry |-> e,
                 atr |-> atr, stop_loss |-> e + so,
                 take_profit |-> IF a = "short" THEN e - 100 ELSE e + 100,
                 size |-> 0, leverage |-> 1]
    /\ acct = [balance |-> 100, position |-> "none"]
    /\ ctx = NoContext
    /\ seen = {}
    /\ verdict = NoVerdict
    /\ order = NoOrder
    /\ cycle = NoCycle
    /\ store = NoStore
    /\ tasks = NoTasks
    /\ server = NoServer
    /\ ui = NoUi
    /\ bars = NoBars
    /\ raw = NoRaw
    /\ scoreSet = NoScoreSet
    /\ ots = NoOvertrading
    /\ de = NoEngine

NextStop == AuditStopLoss \/ Resubmit

SpecStop == InitStop /\ [][NextStop]_vars

----------------------------------------------------------------------------
(* One whole cycle of a symbol: Scorer, Decision Engine, Risk Auditor,     *)
(* Executor                                                                *)

\* the snapshots of the cycle: aligned up, aligned down, 1h + 15m up only, and
\* aligned up against an overbought 1h oscillator
CycleReadings ==
    { [t \in Timeframes |->
          CASE t = "1h" -> [trend |-> r[1], osc |-> r[4]]
            [] t = "15m" -> [trend |-> r[2], osc |-> 0]
            [] OTHER -> [trend |-> r[3], osc |-> 0]] :
      r \in {<<60, 30, 10, 0>>, <<-60, -30, -10, 0>>, <<60, 30, -10, 0>>,
             <<60, 30, 10, -80>>} }

CycleBars ==
    {[t \in Timeframes |-> LongestLookback],
     [t \in Timeframes |-> IF t = "1h" THEN LongestLookback - 1 ELSE LongestLookback]}

CycleOvertradingStates ==
    { o \in OvertradingStates :
        /\ o.entries_6h = MAX_POSITIONS_6H - 1
        /\ o.loss_streak = 0 }

InitPipeline ==
    /\ pc = "scorer"
    /\ symbol \in TrackedSymbols
    /\ bars \in CycleBars
    /\ raw \in CycleReadings
    /\ ots \in CycleOvertradingStates
    /\ scoreSet = NoScoreSet
    /\ de = NoEngine
    /\ dec = NoDecision
    /\ acct = NoAccount
    /\ ctx = NoContext
    /\ seen = {}
    /\ verdict = NoVerdict
    /\ order = NoOrder
    /\ cycle = NoCycle
    /\ store = NoStore
    /\ tasks = NoTasks
    /\ server = NoServer
    /\ ui = NoUi

NextPipeline == Scorer \/ DecisionEngine \/ Audit \/ Execute

SpecPipeline == InitPipeline /\ [][NextPipeline]_vars

----------------------------------------------------------------------------
(* The weighted score on two input vectors that differ in one score *)

ScoreValues == {-100, -30, 0, 60, 100}

ScoreVectors ==
    { [t \in Timeframes |->
          CASE t = "1h" -> [trend |-> v[1], osc |-> v[4], insufficient |-> FALSE]
            [] t = "15m" -> [trend |-> v[2], osc |-> v[5], insufficient |-> FALSE]
            [] OTHER -> [trend |-> v[3], osc |-> v[6], insufficient |-> FALSE]] :
      v \in {-60, 10} \X {-60, 10} \X {-60, 10} \X {-30, 40} \X {-30, 40} \X {-30, 40} }

SignalReadings ==
    {NoSentiment} \cup {[avail |-> TRUE, v |-> x] : x \in {-30, 60}}

\* the engine weighs the same inputs again with one score raised, the
\* availability of every input as it was
Reweigh ==
    /\ pc = "early_filter"
    /\ "reweighed" \notin seen
    /\ \E v \in ScoreValues :
          \/ \E t \in Timeframes :
                /\ v > scoreSet[t].trend
                /\ scoreSet' = [scoreSet EXCEPT ![t].trend = v]
                /\ ctx' = ctx
          \/ \E t \in Timeframes :
                /\ v > scoreSet[t].osc
                /\ scoreSet' = [scoreSet EXCEPT ![t].osc = v]
                /\ ctx' = ctx
          \/ /\ ctx.prophet.avail /\ v > ctx.prophet.v
             /\ ctx' = [ctx EXCEPT !.prophet.v = v]
             /\ scoreSet' = scoreSet
          \/ /\ ctx.sentiment.avail /\ v > ctx.sentiment.v
             /\ ctx' = [ctx EXCEPT !.sentiment.v = v]
             /\ scoreSet' = scoreSet
    /\ dec' = [dec EXCEPT !.weighted = WeightedScore(scoreSet', ctx')]
    /\ seen' = seen \cup {"reweighed"}
    /\ UNCHANGED <<appVars, cycleVars, pc, symbol, bars, raw, ots, de, auditVars>>

InitWeigh ==
    /\ pc = "weigh"
    /\ symbol \in TrackedSymbols
    /\ bars = [t \in Timeframes |-> LongestLookback]
    /\ raw = NoRaw
    /\ scoreSet \in ScoreVectors
    /\ ots = NoOvertrading
    /\ de = NoEngine
    /\ dec = NoDecision
    /\ acct = NoAccount
    /\ \E se \in SignalReadings, pr \in SignalReadings :
          ctx = [NoContext EXCEPT !.sentiment = se, !.prophet = pr]
    /\ seen = {"scores", "sentiment", "prophet"}
    /\ verdict = NoVerdict
    /\ order = NoOrder
    /\ cycle = NoCycle
    /\ store = NoStore
    /\ tasks = NoTasks
    /\ server = NoServer
    /\ ui = NoUi

NextWeigh == CalculateWeightedScore \/ Reweigh

SpecWeigh == InitWeigh /\ [][NextWeigh]_vars

----------------------------------------------------------------------------
(* Predictor (PredictAgent): rule-based scoring and the optional model.    *)
(* Probabilities and confidence are in hundredths (0.70 = 70), the feature *)
(* contributions in hundredths of the bullish score.                       *)

TREND_CONFIRMATION_BONUS == 15

RSI_OVERSOLD_BONUS == 12

BB_POSITION_BONUS == 10

EMA_CROSS_BONUS == 8

RULE_CONFIDENCE_CAP == 70

\* trend confirmation score >= 2, RSI < 30, band position < 20 and EMA cross
\* strength > 0.5 (in tenths) each add to the bullish score; the bearish side
\* is the mirror image
DirectionScore(f) ==
      (IF f.trend_confirmation >= 2 THEN TREND_CONFIRMATION_BONUS
       ELSE IF f.trend_confirmation <= -2 THEN -TREND_CONFIRMATION_BONUS ELSE 0)
    + (IF f.rsi < 30 THEN RSI_OVERSOLD_BONUS
       ELSE IF f.rsi > 70 THEN -RSI_OVERSOLD_BONUS ELSE 0)
    + (IF f.bb_position < 20 THEN BB_POSITION_BONUS
       ELSE IF f.bb_position > 80 THEN -BB_POSITION_BONUS ELSE 0)
    + (IF f.ema_cross_strength > 5 THEN EMA_CROSS_BONUS
       ELSE IF f.ema_cross_strength < -5 THEN -EMA_CROSS_BONUS ELSE 0)

\* the factors (in tenths) by which a volume ratio above 1.5 may amplify the
\* direction the other features gave
VolumeAmplifiers == {12, 15, 30}

AmplifiedScores(f) ==
    IF f.volume_ratio > 15
    THEN {(DirectionScore(f) * k) \div 10 : k \in VolumeAmplifiers}
    ELSE {DirectionScore(f)}

\* sigmoid-style normalisation of a score into a probability
Normalize(x) == 50 + (50 * x) \div (100 + Abs(x))

\* the confidence before the cap: how far the likelier side is from even, or
\* the probability of the likelier side
RawConfidences(p) == {Abs(2 * p - 100), IF p >= 50 THEN p ELSE 100 - p}

\* a variant that reports the confidence as computed
RuleConfidenceUncapped(c) == c

RuleConfidence(c) == IF c > RULE_CONFIDENCE_CAP THEN RULE_CONFIDENCE_CAP ELSE c

\* the configured strategy, falling back to the rules when the model is not
\* available
PredictMode(f) == IF f.mode = "ml" /\ f.model_available THEN "ml" ELSE "rule"

PredictResult(mode, p, c) ==
    [avail |-> TRUE, mode |-> mode, probability_up |-> p, probability_down |-> 100 - p,
     confidence |-> c]

PredictRuleBased ==
    /\ pc = "predict"
    /\ PredictMode(raw) = "rule"
    /\ \E s \in AmplifiedScores(raw) :
          \E c \in RawConfidences(Normalize(s)) :
             ctx' = [ctx EXCEPT !.prophet = PredictResult("rule", Normalize(s), RuleConfidence(c))]
    /\ seen' = seen \cup {"prophet"}
    /\ pc' = "predicted"
    /\ UNCHANGED <<appVars, cycleVars, symbol, bars, raw, scoreSet, ots, de, dec, auditVars>>

ModelProbabilities == {3, 50, 95}

ValidationAucs == {60, 90}

\* the model's predict_proba, its confidence scaled by the validation AUC
PredictModel ==
    /\ pc = "predict"
    /\ PredictMode(raw) = "ml"
    /\ \E p \in ModelProbabilities, auc \in ValidationAucs :
          ctx' = [ctx EXCEPT !.prophet = PredictResult("ml", p, (Abs(2 * p - 100) * auc) \div 100)]
    /\ seen' = seen \cup {"prophet"}
    /\ pc' = "predicted"
    /\ UNCHANGED <<appVars, cycleVars, symbol, bars, raw, scoreSet, ots, de, dec, auditVars>>

Features ==
    [trend_confirmation : {-3, 0, 2, 3}, rsi : {25, 50, 75}, bb_position : {10, 50, 90},
     ema_cross_strength : {-6, 0, 6}, volume_ratio : {10, 20},
     mode : {"rule", "ml"}, model_available : BOOLEAN]

InitPredict ==
    /\ pc = "predict"
    /\ symbol \in TrackedSymbols
    /\ bars = NoBars
    /\ raw \in Features
    /\ scoreSet = NoScoreSet
    /\ ots = NoOvertrading
    /\ de = NoEngine
    /\ dec = NoDecision
    /\ acct = NoAccount
    /\ ctx = NoContext
    /\ seen = {}
    /\ verdict = NoVerdict
    /\ order = NoOrder
    /\ cycle = NoCycle
    /\ store = NoStore
    /\ tasks = NoTasks
    /\ server = NoServer
    /\ ui = NoUi

NextPredict == PredictRuleBased \/ PredictModel

SpecPredict == InitPredict /\ [][NextPredict]_vars

----------------------------------------------------------------------------
(* The cycle over all candidate symbols: each symbol's pipeline in turn,   *)
(* cancellation, error containment, and the hand-over of the results to    *)
(* the execution collaborator, which alone updates the OvertradingState    *)
(* store                                                                   *)

PipelineStages ==
    DecisionStages \cup {CheckSequence[i] : i \in 1..Len(CheckSequence)} \cup {"pass"}

\* the snapshots of a cycle: aligned up or aligned down, with or without a
\* full 1h history
CycleSnapshots ==
    { [bars |-> b, raw |-> r] :
        b \in CycleBars,
        r \in { x \in CycleReadings : x["1h"].osc = 0 /\ x["5m"].trend * x["1h"].trend > 0 } }

\* the market context of the cycle, read before the first stage
CycleContext ==
    [NoContext EXCEPT !.regime = "trending_up", !.position_pct = 50,
                      !.volume = [rvol |-> 12, adx |-> 30, low_volume |-> FALSE]]

CycleContextFields ==
    {"regime", "strong_setup", "short_losses", "sentiment", "prophet", "position_pct",
     "mean_reversion", "volume", "open_risk", "traps", "balance", "position", "size"}

CycleAccount == [balance |-> 100, position |-> "none"]

\* counters that let the guard through
QuietOvertrading ==
    [cycles_since_entry |-> MIN_CYCLES_SAME_SYMBOL, entries_6h |-> MAX_POSITIONS_6H - 1,
     loss_streak |-> 0, cycles_since_loss |-> LOSS_STREAK_COOLDOWN]

\* a variant in which the cycle may be abandoned wherever it is
AtCheckpointOrMidPipeline == pc \in PipelineStages \cup {"checkpoint", "execute"}

\* the cooperative checkpoint: between two symbols
AtCheckpoint == pc = "checkpoint"

\* the checkpoint found no cancellation request: the next symbol's pipeline
\* starts on its snapshot and on the symbol's OvertradingState
BeginSymbol ==
    /\ cycle.status = "running"
    /\ pc = "checkpoint"
    /\ ~cycle.cancel_requested
    /\ \E s \in cycle.remaining, snap \in CycleSnapshots :
          /\ symbol' = s
          /\ bars' = snap.bars
          /\ raw' = snap.raw
          /\ ots' = store.counters[s]
          /\ cycle' = [cycle EXCEPT !.current = s, !.remaining = @ \ {s},
                                    !.attempts[s] = @ + 1, !.snapshots[s] = snap]
    /\ scoreSet' = NoScoreSet
    /\ de' = NoEngine
    /\ dec' = [NoDecision EXCEPT !.size = 30]
    /\ acct' = CycleAccount
    /\ ctx' = CycleContext
    /\ seen' = CycleContextFields
    /\ verdict' = NoVerdict
    /\ pc' = "scorer"
    /\ UNCHANGED <<appVars, order, store, tasks>>

\* the symbol's TradeDecision + RiskVerdict pair is complete
EndSymbol ==
    /\ cycle.status = "running"
    /\ pc = "execute"
    /\ cycle' = [cycle EXCEPT !.current = "none",
                              !.results[symbol].decision = dec,
                              !.results[symbol].verdict = verdict]
    /\ pc' = "checkpoint"
    /\ bars' = NoBars
    /\ raw' = NoRaw
    /\ scoreSet' = NoScoreSet
    /\ ots' = NoOvertrading
    /\ de' = NoEngine
    /\ dec' = NoDecision
    /\ verdict' = NoVerdict
    /\ ctx' = NoContext
    /\ seen' = {}
    /\ UNCHANGED <<appVars, symbol, acct, order, store, tasks>>

\* the operator asks for the cycle to be abandoned; it takes effect at the
\* next checkpoint
RequestCancel ==
    /\ cycle.status = "running"
    /\ ~cycle.cancel_requested
    /\ cycle' = [cycle EXCEPT !.cancel_requested = TRUE]
    /\ UNCHANGED <<appVars, pc, symbol, bars, raw, scoreSet, ots, acct, ctx, seen, de, dec, verdict,
                   order, store, tasks>>

AbandonCycle ==
    /\ cycle.status = "running"
    /\ cycle.cancel_requested
    /\ AtCheckpoint
    /\ cycle' = [cycle EXCEPT !.status = "cancelled"]
    /\ pc' = "cancelled"
    /\ UNCHANGED <<appVars, symbol, bars, raw, scoreSet, ots, acct, ctx, seen, de, dec, verdict,
                   order, store, tasks>>

ErrorClasses == {"data_quality", "unexpected", "configuration"}

\* a variant in which every error fails the cycle
ErrorScopeAlwaysCycle(class) == "cycle"

\* what an error of a class takes down: the symbol's decision or the cycle
ErrorScope(class) == IF class = "configuration" THEN "cycle" ELSE "symbol"

\* a stage of the current symbol's pipeline raises an error
RaiseError ==
    /\ cycle.status = "running"
    /\ pc \in PipelineStages
    /\ \E class \in ErrorClasses :
          IF ErrorScope(class) = "symbol"
          THEN /\ cycle' = [cycle EXCEPT !.results[symbol].error = class]
               /\ dec' = [NoDecision EXCEPT !.action = "hold"]
               /\ verdict' = [NoVerdict EXCEPT !.status = "pass"]
               /\ de' = [de EXCEPT !.reason = class]
               /\ pc' = "execute"
          ELSE /\ cycle' = [cycle EXCEPT
                     !.status = "failed", !.current = "none",
                     !.results = [t \in CycleSymbols |->
                                     [NoResult EXCEPT !.error =
                                         IF t = symbol THEN class ELSE cycle.results[t].error]]]
               /\ dec' = NoDecision
               /\ verdict' = NoVerdict
               /\ de' = [de EXCEPT !.reason = class]
               /\ pc' = "failed"
    /\ UNCHANGED <<appVars, symbol, bars, raw, scoreSet, ots, acct, ctx, seen, order, store, tasks>>

\* every symbol has its pair: the results are handed to the execution
\* collaborator
HandOver ==
    /\ cycle.status = "running"
    /\ pc = "checkpoint"
    /\ cycle.remaining = {}
    /\ cycle' = [cycle EXCEPT !.status = "complete"]
    /\ pc' = "handed"
    /\ UNCHANGED <<appVars, symbol, bars, raw, scoreSet, ots, acct, ctx, seen, de, dec, verdict,
                   order, store, tasks>>

\* the execution collaborator turns an approved verdict into an order
PlaceOrder ==
    /\ cycle.status = "complete"
    /\ \E s \in CycleSymbols :
          /\ cycle.orders[s] = NoOrder
          /\ ShouldExecute(cycle.results[s].verdict, cycle.results[s].decision)
          /\ cycle' = [cycle EXCEPT !.orders[s] =
                          [side |-> cycle.results[s].decision.action,
                           stop_loss |-> cycle.results[s].verdict.stop_loss]]
    /\ UNCHANGED <<appVars, pc, symbol, bars, raw, scoreSet, ots, acct, ctx, seen, de, dec, verdict,
                   order, store, tasks>>

\* a variant that counts an entry as soon as a long or short was decided
EntryAssumedOnDecision(s) == cycle.results[s].decision.action \in {"long", "short"}

\* the broker filled the order of s
EntryConfirmed(s) == cycle.orders[s].side \in {"long", "short"}

\* the execution collaborator records an opened trade
ConfirmOpened ==
    /\ cycle.status = "complete"
    /\ \E s \in CycleSymbols \ cycle.opened :
          /\ EntryConfirmed(s)
          /\ store' = [store EXCEPT !.counters[s].entries_6h = @ + 1,
                                    !.counters[s].cycles_since_entry = 0]
          /\ cycle' = [cycle EXCEPT !.opened = @ \cup {s}]
    /\ UNCHANGED <<appVars, pc, symbol, bars, raw, scoreSet, ots, acct, ctx, seen, de, dec, verdict,
                   order, tasks>>

\* the execution collaborator records a closed trade and its outcome
ConfirmClosed ==
    /\ cycle.status = "complete"
    /\ \E s \in cycle.opened \ cycle.closed, loss \in BOOLEAN :
          /\ store' = [store EXCEPT
                 !.counters[s].loss_streak = IF loss THEN @ + 1 ELSE 0,
                 !.counters[s].cycles_since_loss = IF loss THEN 0 ELSE @]
          /\ cycle' = [cycle EXCEPT !.closed = @ \cup {s}]
    /\ UNCHANGED <<appVars, pc, symbol, bars, raw, scoreSet, ots, acct, ctx, seen, de, dec, verdict,
                   order, tasks>>

InitCycle ==
    /\ pc = "checkpoint"
    /\ symbol = "none"
    /\ bars = NoBars
    /\ raw = NoRaw
    /\ scoreSet = NoScoreSet
    /\ ots = NoOvertrading
    /\ de = NoEngine
    /\ dec = NoDecision
    /\ acct = CycleAccount
    /\ ctx = NoContext
    /\ seen = {}
    /\ verdict = NoVerdict
    /\ order = NoOrder
    /\ cycle = [NoCycle EXCEPT !.status = "running", !.remaining = CycleSymbols]
    /\ store = [NoStore EXCEPT !.counters = [s \in CycleSymbols |-> QuietOvertrading]]
    /\ tasks = NoTasks
    /\ server = NoServer
    /\ ui = NoUi

NextCycle ==
    \/ BeginSymbol \/ Scorer \/ DecisionEngine \/ Audit \/ EndSymbol
    \/ RequestCancel \/ AbandonCycle \/ RaiseError
    \/ HandOver \/ PlaceOrder \/ ConfirmOpened \/ ConfirmClosed

SpecCycle == InitCycle /\ [][NextCycle]_vars

----------------------------------------------------------------------------
(* The OvertradingState store under concurrent use: the Decision Engine   *)
(* reads a symbol's counters for its guard while two contexts of the       *)
(* execution collaborator record confirmed trades                          *)

Writers == {"fill_feed", "close_feed"}

TradeEvents == {"opened", "closed_loss"}

\* counters one loss short of the cooldown
StoredOvertrading == [QuietOvertrading EXCEPT !.loss_streak = LossStreakLimit - 1]

\* a variant that never waits
LockAvailableRegardless(s) == TRUE

\* per-symbol exclusive access
LockAvailable(s) == store.lock[s] = "free"

\* the counters after a confirmed event
AfterEvent(o, event) ==
    IF event = "opened"
    THEN [o EXCEPT !.entries_6h = @ + 1, !.cycles_since_entry = 0]
    ELSE [o EXCEPT !.loss_streak = @ + 1, !.cycles_since_loss = 0]

storeFrame == <<bars, raw, scoreSet, acct, ctx, seen, de, dec, verdict, order, cycle>>

\* the Decision Engine takes the symbol's lock before its guard check
ReaderAcquire ==
    /\ pc = "lock"
    /\ LockAvailable(symbol)
    /\ store' = [store EXCEPT !.lock[symbol] = "decision_engine"]
    /\ pc' = "read_entry"
    /\ UNCHANGED <<appVars, symbol, ots, tasks, storeFrame>>

\* the guard's three reads, one counter group at a time
ReaderRead ==
    /\ \/ /\ pc = "read_entry"
          /\ ots' = [ots EXCEPT !.cycles_since_entry =
                                    store.counters[symbol].cycles_since_entry]
          /\ pc' = "read_window"
       \/ /\ pc = "read_window"
          /\ ots' = [ots EXCEPT !.entries_6h = store.counters[symbol].entries_6h]
          /\ pc' = "read_losses"
       \/ /\ pc = "read_losses"
          /\ ots' = [ots EXCEPT !.loss_streak = store.counters[symbol].loss_streak,
                                !.cycles_since_loss =
                                    store.counters[symbol].cycles_since_loss]
          /\ pc' = "unlock"
    /\ UNCHANGED <<appVars, symbol, store, tasks, storeFrame>>

ReaderRelease ==
    /\ pc = "unlock"
    /\ store' = [store EXCEPT !.lock[symbol] = "free"]
    /\ pc' = "guard"
    /\ UNCHANGED <<appVars, symbol, ots, tasks, storeFrame>>

WriterAcquire ==
    /\ \E w \in Writers :
          /\ tasks.writer[w].pc = "lock"
          /\ LockAvailable(tasks.writer[w].symbol)
          /\ store' = [store EXCEPT !.lock[tasks.writer[w].symbol] = w]
          /\ tasks' = [tasks EXCEPT !.writer[w].pc = "load"]
    /\ UNCHANGED <<appVars, pc, symbol, ots, storeFrame>>

\* read-modify-write of the whole record
WriterLoad ==
    /\ \E w \in Writers :
          /\ tasks.writer[w].pc = "load"
          /\ tasks' = [tasks EXCEPT !.writer[w].pc = "store",
                                    !.writer[w].loaded = store.counters[tasks.writer[w].symbol]]
    /\ UNCHANGED <<appVars, pc, symbol, ots, store, storeFrame>>

WriterStore ==
    /\ \E w \in Writers :
          LET s == tasks.writer[w].symbol
              o == AfterEvent(tasks.writer[w].loaded, tasks.writer[w].event)
          IN /\ tasks.writer[w].pc = "store"
             /\ store' = [store EXCEPT !.counters[s] = o]
             /\ tasks' = [tasks EXCEPT !.writer[w].pc = "unlock",
                                       !.versions[s] = @ \cup {o}]
    /\ UNCHANGED <<appVars, pc, symbol, ots, storeFrame>>

WriterRelease ==
    /\ \E w \in Writers :
          /\ tasks.writer[w].pc = "unlock"
          /\ store' = [store EXCEPT !.lock[tasks.writer[w].symbol] = "free"]
          /\ tasks' = [tasks EXCEPT !.writer[w].pc = "done"]
    /\ UNCHANGED <<appVars, pc, symbol, ots, storeFrame>>

InitStore ==
    /\ pc = "lock"
    /\ symbol \in CycleSymbols
    /\ bars = NoBars
    /\ raw = NoRaw
    /\ scoreSet = NoScoreSet
    /\ ots = NoOvertrading
    /\ de = NoEngine
    /\ dec = NoDecision
    /\ acct = NoAccount
    /\ ctx = NoContext
    /\ seen = {}
    /\ verdict = NoVerdict
    /\ order = NoOrder
    /\ cycle = NoCycle
    /\ store = [NoStore EXCEPT !.counters = [s \in CycleSymbols |-> StoredOvertrading]]
    /\ server = NoServer
    /\ ui = NoUi
    /\ \E ws \in [Writers -> CycleSymbols], ev \in [Writers -> TradeEvents] :
          tasks = [writer |-> [w \in Writers |->
                                  [pc |-> "lock", symbol |-> ws[w], event |-> ev[w],
                                   loaded |-> NoOvertrading]],
                   versions |-> [s \in CycleSymbols |-> {StoredOvertrading}]]

NextStore ==
    \/ ReaderAcquire \/ ReaderRead \/ ReaderRelease \/ OvertradingGuard
    \/ WriterAcquire \/ WriterLoad \/ WriterStore \/ WriterRelease

SpecStore == InitStore /\ [][NextStore]_vars

----------------------------------------------------------------------------
(* Regime Classifier (RegimeDetector): the trend strength score and the    *)
(* market state.  ATR% is in basis points.                                 *)

TSS_ADX_POINTS == 40

TSS_EMA_POINTS == 30

TSS_MACD_POINTS == 30

STRONG_TREND_TSS == 70

TSS_ADX_THRESHOLD == 25

CHOPPY_ADX == 20

VOLATILE_ATR_PCT == 200

\* saturating sum of the three contributions
TrendStrengthScore(m) ==
    Clamp((IF m.adx > TSS_ADX_THRESHOLD THEN TSS_ADX_POINTS ELSE 0)
          + (IF m.ema_alignment # "none" THEN TSS_EMA_POINTS ELSE 0)
          + (IF m.macd_confirmed THEN TSS_MACD_POINTS ELSE 0), 0, 100)

\* the rows of the market-state table whose condition the measurements meet
TrendingRows(m) ==
    IF TrendStrengthScore(m) >= STRONG_TREND_TSS /\ m.ema_alignment # "none"
    THEN {IF m.ema_alignment = "up" THEN "trending_up" ELSE "trending_down"}
    ELSE {}

ConservativeRows(m) ==
    (IF m.adx < CHOPPY_ADX THEN {"choppy"} ELSE {})
    \cup (IF m.atr_pct > VOLATILE_ATR_PCT THEN {"volatile"} ELSE {})
    \cup (IF m.adx > TSS_ADX_THRESHOLD /\ m.ema_alignment = "none"
          THEN {"volatile_directionless"} ELSE {})

\* a variant that takes the rows in the order of the table, trending first
ClassifyRegimeTableOrder(m) ==
    IF TrendingRows(m) # {} THEN TrendingRows(m)
    ELSE IF ConservativeRows(m) # {} THEN ConservativeRows(m)
    ELSE {"unknown"}

\* the regimes the classifier may return: a conservative row wins over a
\* trending one
ClassifyRegime(m) ==
    IF ConservativeRows(m) # {} THEN ConservativeRows(m)
    ELSE IF TrendingRows(m) # {} THEN TrendingRows(m)
    ELSE {"unknown"}

DetectRegime ==
    /\ pc = "detect"
    /\ \E r \in ClassifyRegime(raw) :
          ctx' = [ctx EXCEPT !.regime = r]
    /\ seen' = seen \cup {"regime"}
    /\ de' = [de EXCEPT !.weighted = TrendStrengthScore(raw)]
    /\ pc' = "detected"
    /\ UNCHANGED <<appVars, cycleVars, symbol, bars, raw, scoreSet, ots, dec, auditVars>>

\* measurements on both sides of every threshold
RegimeMeasurements ==
    [adx : {15, 20, 22, 25, 30}, ema_alignment : {"up", "down", "none"},
     macd_confirmed : BOOLEAN, atr_pct : {100, 200, 300}]

InitRegime ==
    /\ pc = "detect"
    /\ symbol \in TrackedSymbols
    /\ bars = NoBars
    /\ raw \in RegimeMeasurements
    /\ scoreSet = NoScoreSet
    /\ ots = NoOvertrading
    /\ de = NoEngine
    /\ dec = NoDecision
    /\ acct = NoAccount
    /\ ctx = NoContext
    /\ seen = {}
    /\ verdict = NoVerdict
    /\ order = NoOrder
    /\ cycle = NoCycle
    /\ store = NoStore
    /\ tasks = NoTasks
    /\ server = NoServer
    /\ ui = NoUi

NextRegime == DetectRegime

SpecRegime == InitRegime /\ [][NextRegime]_vars

----------------------------------------------------------------------------
(* The kill switch: the Risk Manager Agent's veto, the Execution Agent's   *)
(* order placement, and the Risk page's switch (RiskPanel)                 *)

pipelineVars ==
    <<pc, symbol, bars, raw, scoreSet, ots, acct, ctx, seen, de, dec, verdict, order,
      cycle, store, tasks>>

max_daily_loss == 10000

\* the signals of the run and the losses a closed trade may book
MaxSignals == 3

TradeLosses == {0, 5000}

\* a variant that does not look at the switch
KillSwitchIgnored(sv) == FALSE

\* veto reason: kill-switch active
KillSwitchVetoes(sv) == sv.kill_switch

\* veto reason: daily loss limit exceeded; the breach activates the switch
DailyLossBreached(sv) == sv.daily_loss >= max_daily_loss

\* 3. Risk Manager Agent: receive a signal, APPROVE or VETO
EvaluateSignal ==
    /\ server.signals < MaxSignals
    /\ server.decision = "none"
    /\ \E other_veto \in BOOLEAN :
          LET veto == KillSwitchVetoes(server) \/ DailyLossBreached(server) \/ other_veto
          IN server' = [server EXCEPT
                 !.signals = @ + 1,
                 !.kill_switch = @ \/ DailyLossBreached(server),
                 !.decision = IF veto THEN "none" ELSE "approved",
                 !.evaluated = @ \cup {[active |-> server.kill_switch,
                                        verdict |-> IF veto THEN "veto" ELSE "approve"]}]
    /\ UNCHANGED <<ui, pipelineVars>>

\* 4. Execution Agent: price = await broker.get_ltp(...)
ExecutionGetLtp ==
    /\ server.decision = "approved"
    /\ server' = [server EXCEPT !.decision = "priced"]
    /\ UNCHANGED <<ui, pipelineVars>>

\* result = await broker.place_order(order)
ExecutionPlaceOrder ==
    /\ server.decision = "priced"
    /\ \E success \in BOOLEAN :
          server' = [server EXCEPT
              !.decision = IF success THEN "placed" ELSE "none",
              !.orders = IF success
                         THEN @ \cup {[kind |-> "entry", active |-> server.kill_switch]}
                         ELSE @]
    /\ UNCHANGED <<ui, pipelineVars>>

\* if result.success: await _place_stop_loss(...)
ExecutionPlaceStopLoss ==
    /\ server.decision = "placed"
    /\ server' = [server EXCEPT
           !.decision = "open",
           !.orders = @ \cup {[kind |-> "stop_loss", active |-> server.kill_switch]}]
    /\ UNCHANGED <<ui, pipelineVars>>

\* the trade closes and its loss is added to the day's loss
RecordTradeResult ==
    /\ server.decision = "open"
    /\ \E loss \in TradeLosses :
          server' = [server EXCEPT !.decision = "none", !.daily_loss = @ + loss]
    /\ UNCHANGED <<ui, pipelineVars>>

\* RiskPanel: the button calls handleKillSwitch(!status.kill_switch)
HandleKillSwitch ==
    /\ ui.request = "none"
    /\ ui' = [ui EXCEPT !.request = IF ui.kill_switch THEN "deactivate" ELSE "activate"]
    /\ UNCHANGED <<server, pipelineVars>>

\* POST /api/risk/kill-switch?activate=...: served, or failed and only logged;
\* fetchRiskStatus follows a served request
KillSwitchResponse ==
    /\ ui.request \in {"activate", "deactivate"}
    /\ \/ /\ server' = [server EXCEPT !.kill_switch = (ui.request = "activate")]
          /\ ui' = [ui EXCEPT !.request = "refresh"]
       \/ /\ server' = server
          /\ ui' = [ui EXCEPT !.request = "none"]
    /\ UNCHANGED pipelineVars

\* fetchRiskStatus: after a switch request and every 5 seconds
FetchRiskStatus ==
    /\ ui.request \in {"none", "refresh"}
    /\ \E ok \in BOOLEAN :
          ui' = [ui EXCEPT !.request = "none",
                           !.kill_switch = IF ok THEN server.kill_switch ELSE @]
    /\ ui' # ui
    /\ UNCHANGED <<server, pipelineVars>>

InitKill ==
    /\ pc = "idle"
    /\ symbol \in TrackedSymbols
    /\ bars = NoBars
    /\ raw = NoRaw
    /\ scoreSet = NoScoreSet
    /\ ots = NoOvertrading
    /\ de = NoEngine
    /\ dec = NoDecision
    /\ acct = NoAccount
    /\ ctx = NoContext
    /\ seen = {}
    /\ verdict = NoVerdict
    /\ order = NoOrder
    /\ cycle = NoCycle
    /\ store = NoStore
    /\ tasks = NoTasks
    /\ server = [kill_switch |-> FALSE, daily_loss |-> 0, signals |-> 0, decision |-> "none",
                 evaluated |-> {}, orders |-> {}]
    /\ ui = [kill_switch |-> FALSE, request |-> "none"]

NextKill ==
    \/ EvaluateSignal \/ ExecutionGetLtp \/ ExecutionPlaceOrder \/ ExecutionPlaceStopLoss
    \/ RecordTradeResult \/ HandleKillSwitch \/ KillSwitchResponse \/ FetchRiskStatus

SpecKill == InitKill /\ [][NextKill]_vars

----------------------------------------------------------------------------
(* ------------------------------------------------------------------ *)
(* The Settings page: broker accounts and the TOTP modal.  ui holds    *)
(* the component state, server.requests the fetches in flight, each    *)
(* with the brokerAccounts list its handler's closure captured         *)
(* ------------------------------------------------------------------ *)

\* the pipeline is not running while a page of the frontend is modelled
PipelineUnused ==
    /\ pc = "idle"
    /\ symbol \in {"RELIANCE"}
    /\ bars = NoBars
    /\ raw = NoRaw
    /\ scoreSet = NoScoreSet
    /\ ots = NoOvertrading
    /\ de = NoEngine
    /\ dec = NoDecision
    /\ acct = NoAccount
    /\ ctx = NoContext
    /\ seen = {}
    /\ verdict = NoVerdict
    /\ order = NoOrder
    /\ cycle = NoCycle
    /\ store = NoStore
    /\ tasks = NoTasks

AccountIds == {"acc1", "acc2"}

AccountStatuses == {"disconnected", "connected"}

\* the lengths the TOTP input can hold: onChange keeps digits only, at most 6
TotpLengths == {0, 5, 6}

MaxRequests == 2

\* a.id === id ? { ...a, status } : a  over a list of accounts
MapStatus(accounts, id, status) ==
    [a \in DOMAIN accounts |-> IF a = id THEN status ELSE accounts[a]]

\* accounts.filter(a => a.id !== id)
FilterOut(accounts, id) ==
    [a \in DOMAIN accounts \ {id} |-> accounts[a]]

FetchRequest(kind, id, totp) ==
    [kind |-> kind, account_id |-> id, totp |-> totp,
     captured |-> ui.brokerAccounts, response |-> "pending"]

\* the Connect button of a disconnected account
initiateConnect ==
    /\ \E a \in DOMAIN ui.brokerAccounts :
          /\ ui.brokerAccounts[a] # "connected"
          /\ ui' = [ui EXCEPT !.connectingAccountId = a, !.totpLength = 0,
                              !.connectionError = FALSE, !.showTotpModal = TRUE]
    /\ UNCHANGED <<server, pipelineVars>>

\* typing into the TOTP input of the modal
setTotpCode ==
    /\ ui.showTotpModal
    /\ \E n \in TotpLengths :
          /\ n # ui.totpLength
          /\ ui' = [ui EXCEPT !.totpLength = n]
    /\ UNCHANGED <<server, pipelineVars>>

\* the overlay or the close button of the modal
closeTotpModal ==
    /\ ui.showTotpModal
    /\ ui' = [ui EXCEPT !.showTotpModal = FALSE]
    /\ UNCHANGED <<server, pipelineVars>>

\* connectWithTotp up to its await: the button is disabled while connecting
\* or while the code is not 6 digits long, and the function checks the
\* length again
connectWithTotp ==
    /\ ui.showTotpModal
    /\ ~ui.connecting
    /\ ui.totpLength = 6
    /\ Cardinality(server.requests) < MaxRequests
    /\ ui' = [ui EXCEPT !.connecting = TRUE, !.connectionError = FALSE]
    /\ server' = [server EXCEPT !.requests =
                     @ \cup {FetchRequest("connect", ui.connectingAccountId, ui.totpLength)}]
    /\ UNCHANGED pipelineVars

\* deleteAccount up to its await, the confirm() accepted
deleteAccount ==
    /\ Cardinality(server.requests) < MaxRequests
    /\ \E a \in DOMAIN ui.brokerAccounts :
          server' = [server EXCEPT !.requests = @ \cup {FetchRequest("delete", a, 0)}]
    /\ UNCHANGED <<ui, pipelineVars>>

\* disconnectBroker up to its await: the button of a connected account
disconnectBroker ==
    /\ Cardinality(server.requests) < MaxRequests
    /\ \E a \in DOMAIN ui.brokerAccounts :
          /\ ui.brokerAccounts[a] = "connected"
          /\ server' = [server EXCEPT !.requests = @ \cup {FetchRequest("disconnect", a, 0)}]
    /\ UNCHANGED <<ui, pipelineVars>>

\* the backend answers a fetch (res.ok, or not), or the fetch throws
FetchSettles ==
    /\ \E r \in server.requests :
          /\ r.response = "pending"
          /\ \E answer \in {"ok", "rejected", "failed"} :
                server' = [server EXCEPT !.requests =
                              (@ \ {r}) \cup {[r EXCEPT !.response = answer]}]
    /\ UNCHANGED <<ui, pipelineVars>>

\* connectWithTotp after its await: the res.ok branch, the else branch, the
\* catch branch, and finally
connectCompletes ==
    /\ \E r \in server.requests :
          /\ r.kind = "connect"
          /\ r.response # "pending"
          /\ server' = [server EXCEPT !.requests = @ \ {r}]
          /\ IF r.response = "rejected"
             THEN ui' = [ui EXCEPT !.connectionError = TRUE, !.connecting = FALSE]
             ELSE ui' = [ui EXCEPT
                            !.brokerAccounts = MapStatus(r.captured, r.account_id, "connected"),
                            !.showTotpModal = FALSE, !.connecting = FALSE]
    /\ UNCHANGED pipelineVars

\* deleteAccount after its await: a failed DELETE is swallowed
deleteCompletes ==
    /\ \E r \in server.requests :
          /\ r.kind = "delete"
          /\ r.response # "pending"
          /\ server' = [server EXCEPT !.requests = @ \ {r}]
          /\ ui' = [ui EXCEPT !.brokerAccounts = FilterOut(r.captured, r.account_id)]
    /\ UNCHANGED pipelineVars

\* disconnectBroker after its await: a failed POST is swallowed
disconnectCompletes ==
    /\ \E r \in server.requests :
          /\ r.kind = "disconnect"
          /\ r.response # "pending"
          /\ server' = [server EXCEPT !.requests = @ \ {r}]
          /\ ui' = [ui EXCEPT
                       !.brokerAccounts = MapStatus(r.captured, r.account_id, "disconnected")]
    /\ UNCHANGED pipelineVars

\* the page after loadAccounts answered
InitSettings ==
    /\ PipelineUnused
    /\ server = [requests |-> {}]
    /\ \E accounts \in [AccountIds -> AccountStatuses] :
          ui = [brokerAccounts |-> accounts, showTotpModal |-> FALSE, totpLength |-> 0,
                connectingAccountId |-> "none", connecting |-> FALSE,
                connectionError |-> FALSE]

NextSettings ==
    \/ initiateConnect \/ setTotpCode \/ closeTotpModal \/ connectWithTotp
    \/ deleteAccount \/ disconnectBroker \/ FetchSettles
    \/ connectCompletes \/ deleteCompletes \/ disconnectCompletes

SpecSettings == InitSettings /\ [][NextSettings]_vars

----------------------------------------------------------------------------
(* ------------------------------------------------------------------ *)
(* The App shell and the Login page: authentication, the trading       *)
(* controls and the status feed.  ui holds the App and Login state and *)
(* the browser's localStorage, server the backend's run state and the  *)
(* fetches in flight                                                   *)
(* ------------------------------------------------------------------ *)

Credentials == {"valid", "invalid"}

ApiRequest(kind, credentials) ==
    [kind |-> kind, credentials |-> credentials, response |-> "pending"]

\* Login.handleSubmit up to its await: the submit button is disabled while
\* isLoading
handleSubmit ==
    /\ ~ui.isAuthenticated
    /\ ~ui.isLoading
    /\ \E c \in Credentials :
          server' = [server EXCEPT !.requests = @ \cup {ApiRequest("login", c)}]
    /\ ui' = [ui EXCEPT !.isLoading = TRUE]
    /\ UNCHANGED pipelineVars

\* POST /api/login: a token for valid credentials, a rejection otherwise, or
\* the fetch throws
LoginSettles ==
    /\ \E r \in server.requests :
          /\ r.kind = "login"
          /\ r.response = "pending"
          /\ \E answer \in {IF r.credentials = "valid" THEN "ok" ELSE "rejected", "failed"} :
                server' = [server EXCEPT !.requests =
                              (@ \ {r}) \cup {[r EXCEPT !.response = answer]}]
    /\ UNCHANGED <<ui, pipelineVars>>

\* Login.handleSubmit after its await: response.ok stores the token and calls
\* onLogin (App.handleLogin), a rejection sets the error, the catch branch
\* stores demo_token and calls onLogin; finally
handleSubmitCompletes ==
    /\ \E r \in server.requests :
          /\ r.kind = "login"
          /\ r.response # "pending"
          /\ server' = [server EXCEPT !.requests = @ \ {r}]
          /\ ui' = CASE r.response = "ok" ->
                          [ui EXCEPT !.auth_token = "token", !.isAuthenticated = TRUE,
                                     !.isLoading = FALSE]
                     [] r.response = "rejected" ->
                          [ui EXCEPT !.isLoading = FALSE]
                     [] OTHER ->
                          [ui EXCEPT !.auth_token = "demo_token", !.isAuthenticated = TRUE,
                                     !.isLoading = FALSE]
    /\ UNCHANGED pipelineVars

handleLogout ==
    /\ ui.isAuthenticated
    /\ ui' = [ui EXCEPT !.auth_token = "none", !.isAuthenticated = FALSE]
    /\ UNCHANGED <<server, pipelineVars>>

\* the page is loaded again: the state is the initial one, the fetches of the
\* old page are gone, and the effect on mount reads localStorage
MountApp ==
    /\ ui' = [auth_token |-> ui.auth_token, isAuthenticated |-> ui.auth_token # "none",
              isLoading |-> FALSE, isRunning |-> FALSE, isPaused |-> FALSE]
    /\ server' = [server EXCEPT !.requests = {}]
    /\ ui' # ui \/ server' # server
    /\ UNCHANGED pipelineVars

\* handleControl('start') and handleControl('stop') up to their await
handleControl ==
    /\ ui.isAuthenticated
    /\ \E action \in {"start", "stop"} :
          server' = [server EXCEPT !.requests = @ \cup {ApiRequest(action, "none")}]
    /\ UNCHANGED <<ui, pipelineVars>>

\* POST /api/trading/start and /api/trading/stop: served, or the fetch throws
ControlSettles ==
    /\ \E r \in server.requests :
          /\ r.kind \in {"start", "stop"}
          /\ r.response = "pending"
          /\ \/ server' = [requests |-> (server.requests \ {r}) \cup {[r EXCEPT !.response = "ok"]},
                           is_running |-> (r.kind = "start")]
             \/ server' = [server EXCEPT !.requests =
                              (@ \ {r}) \cup {[r EXCEPT !.response = "failed"]}]
    /\ UNCHANGED <<ui, pipelineVars>>

\* handleControl after its await: the catch branch sets the same flags
handleControlCompletes ==
    /\ \E r \in server.requests :
          /\ r.kind \in {"start", "stop"}
          /\ r.response # "pending"
          /\ server' = [server EXCEPT !.requests = @ \ {r}]
          /\ ui' = [ui EXCEPT !.isRunning = (r.kind = "start"), !.isPaused = FALSE]
    /\ UNCHANGED pipelineVars

\* handleControl('pause'): the button is always enabled
handleControlPause ==
    /\ ui.isAuthenticated
    /\ ui' = [ui EXCEPT !.isPaused = ~ui.isPaused]
    /\ UNCHANGED <<server, pipelineVars>>

\* a WebSocket message of type status, or the answer to fetchStatus
StatusReceived ==
    /\ ui.isAuthenticated
    /\ ui.isRunning # server.is_running
    /\ ui' = [ui EXCEPT !.isRunning = server.is_running]
    /\ UNCHANGED <<server, pipelineVars>>

\* if (!isRunning) STOPPED, if (isPaused) PAUSED, else RUNNING
getStatusBadge ==
    IF ~ui.isRunning THEN "STOPPED" ELSE IF ui.isPaused THEN "PAUSED" ELSE "RUNNING"

InitApp ==
    /\ PipelineUnused
    /\ server = [requests |-> {}, is_running |-> FALSE]
    /\ ui = [auth_token |-> "none", isAuthenticated |-> FALSE, isLoading |-> FALSE,
             isRunning |-> FALSE, isPaused |-> FALSE]

NextApp ==
    \/ handleSubmit \/ LoginSettles \/ handleSubmitCompletes \/ handleLogout \/ MountApp
    \/ handleControl \/ ControlSettles \/ handleControlCompletes \/ handleControlPause
    \/ StatusReceived

SpecApp == InitApp /\ [][NextApp]_vars

----------------------------------------------------------------------------
(* ------------------------------------------------------------------ *)
(* The Backtest page: the tab bar and the runs.  ui holds the          *)
(* component state, server.runs the runBacktest calls that have not    *)
(* returned, each with the activeTab its closure captured and whether  *)
(* its progress interval is still set                                  *)
(* ------------------------------------------------------------------ *)

MAX_TABS == 5

HISTORY_LIMIT == 10

\* the largest tab id and the number of runs the model issues
MaxTabId == 6

MaxRuns == 2

\* percent of a tab's progress entry; NoProgress for a missing or null entry
NoProgress == -1

ProgressSteps == {95}

TabIdsOf(tabList) == {tabList[i].id : i \in 1..Len(tabList)}

TabStatus(tabList, id) ==
    tabList[CHOOSE i \in 1..Len(tabList) : tabList[i].id = id].status

\* prev.map(t => t.id === id ? { ...t, status } : t)
SetStatus(tabList, id, status) ==
    [i \in 1..Len(tabList) |->
        IF tabList[i].id = id THEN [tabList[i] EXCEPT !.status = status] ELSE tabList[i]]

\* tabs.filter(t => t.id !== id)
WithoutTab(tabList, id) ==
    SelectSeq(tabList, LAMBDA t : t.id # id)

CanAddTabUpToLimit(tabList) == Len(tabList) <= MAX_TABS

\* addTab returns when tabs.length >= MAX_TABS, and the New Tab button is
\* rendered only while tabs.length < MAX_TABS
CanAddTab(tabList) == Len(tabList) < MAX_TABS

\* closeTab returns when tabs.length <= 1, and the close mark is rendered
\* only while tabs.length > 1
CanCloseTab(tabList) == Len(tabList) > 1

ActiveAfterCloseKept(active, tabId, newTabs) == active

\* if (activeTab === tabId) setActiveTab(newTabs[0].id)
ActiveAfterClose(active, tabId, newTabs) ==
    IF active = tabId THEN newTabs[1].id ELSE active

addTab ==
    /\ CanAddTab(ui.tabs)
    /\ ui.tabCounter < MaxTabId
    /\ LET newId == ui.tabCounter + 1
       IN  ui' = [ui EXCEPT !.tabCounter = newId,
                            !.tabs = Append(@, [id |-> newId, status |-> "idle"]),
                            !.activeTab = newId]
    /\ UNCHANGED <<server, pipelineVars>>

closeTab ==
    /\ CanCloseTab(ui.tabs)
    /\ \E tabId \in TabIdsOf(ui.tabs) :
          LET newTabs == WithoutTab(ui.tabs, tabId)
          IN  ui' = [ui EXCEPT !.tabs = newTabs,
                               !.activeTab = ActiveAfterClose(@, tabId, newTabs)]
    /\ UNCHANGED <<server, pipelineVars>>

\* a click on a tab of the bar
selectTab ==
    /\ \E tabId \in TabIdsOf(ui.tabs) :
          /\ tabId # ui.activeTab
          /\ ui' = [ui EXCEPT !.activeTab = tabId]
    /\ UNCHANGED <<server, pipelineVars>>

\* runBacktest up to its await: the Run button is disabled while the active
\* tab is running
runBacktest ==
    /\ TabStatus(ui.tabs, ui.activeTab) # "running"
    /\ server.started < MaxRuns
    /\ ui' = [ui EXCEPT !.tabs = SetStatus(@, ui.activeTab, "running"),
                        !.tabProgress[ui.activeTab] = 0]
    /\ server' = [started |-> server.started + 1,
                  runs |-> server.runs \cup
                              {[id |-> server.started + 1, tab |-> ui.activeTab,
                                interval |-> TRUE]}]
    /\ UNCHANGED pipelineVars

\* the progress interval of a run fires: it clears itself at 95 percent and
\* otherwise writes a larger percent, starting from 0 when the entry is null
progressTick ==
    /\ \E r \in server.runs :
          /\ r.interval
          /\ LET current == IF ui.tabProgress[r.tab] = NoProgress THEN 0
                            ELSE ui.tabProgress[r.tab]
             IN  IF current >= 95
                 THEN /\ server' = [server EXCEPT !.runs =
                                       (@ \ {r}) \cup {[r EXCEPT !.interval = FALSE]}]
                      /\ ui' = ui
                 ELSE /\ \E p \in ProgressSteps :
                            /\ p > current
                            /\ ui' = [ui EXCEPT !.tabProgress[r.tab] = p]
                      /\ server' = server
    /\ UNCHANGED pipelineVars

\* runBacktest after its await: the interval is cleared, the result (the
\* backend's or the mock) is stored, the tab completed and the history
\* extended; a result that cannot be read ends in the catch branch
runCompletes ==
    /\ \E r \in server.runs :
          /\ server' = [server EXCEPT !.runs = @ \ {r}]
          /\ \/ ui' = [ui EXCEPT
                          !.tabResults = @ \cup {r.tab},
                          !.tabs = SetStatus(@, r.tab, "completed"),
                          !.tabProgress[r.tab] = 100,
                          !.history = SubSeq(<<r.id>> \o @, 1,
                                             IF Len(@) + 1 < HISTORY_LIMIT THEN Len(@) + 1
                                             ELSE HISTORY_LIMIT)]
             \/ ui' = [ui EXCEPT !.tabs = SetStatus(@, r.tab, "error")]
    /\ UNCHANGED pipelineVars

\* the Stop button is rendered while the active tab is running
stopBacktest ==
    /\ TabStatus(ui.tabs, ui.activeTab) = "running"
    /\ ui' = [ui EXCEPT !.tabs = SetStatus(@, ui.activeTab, "idle"),
                        !.tabProgress[ui.activeTab] = NoProgress]
    /\ UNCHANGED <<server, pipelineVars>>

InitBacktest ==
    /\ PipelineUnused
    /\ server = [started |-> 0, runs |-> {}]
    /\ ui = [tabs |-> <<[id |-> 1, status |-> "idle"]>>, activeTab |-> 1, tabCounter |-> 1,
             tabResults |-> {}, tabProgress |-> [t \in 1..MaxTabId |-> NoProgress],
             history |-> <<>>]

NextBacktest ==
    \/ addTab \/ closeTab \/ selectTab
    \/ runBacktest \/ progressTick \/ runCompletes \/ stopBacktest

SpecBacktest == InitBacktest /\ [][NextBacktest]_vars

\* the tab bar alone: sequences of addTab, closeTab and tab selections
NextTabs == addTab \/ closeTab \/ selectTab

SpecTabs == InitBacktest /\ [][NextTabs]_vars

----------------------------------------------------------------------------
(* ------------------------------------------------------------------ *)
(* The Dashboard: the agent-message list and the trade-record list,    *)
(* fed by the WebSocket and by the polling of /api/trades.  An entry   *)
(* is the number the backend issued it under, so a larger entry is a   *)
(* newer one                                                           *)
(* ------------------------------------------------------------------ *)

AGENT_MESSAGE_LIMIT == 50

TRADE_RECORD_LIMIT == 100

\* the numbers of agent messages and of trades the backend issues
MaxMessages == 51

MaxTrades == 101

\* the trades the book holds when the Dashboard is mounted
TradesBeforeMount == {0, 2}

\* [entry, ...prev].slice(0, limit)
PrependAndSlice(entry, prev, limit) ==
    SubSeq(<<entry>> \o prev, 1, IF Len(prev) + 1 < limit THEN Len(prev) + 1 ELSE limit)

\* the trade book /api/trades answers with, the newest trade first
TradeBook(n) == [i \in 1..n |-> n + 1 - i]

\* ws.onmessage, type agent_message
AgentMessageReceived ==
    /\ server.messages < MaxMessages
    /\ server' = [server EXCEPT !.messages = @ + 1]
    /\ ui' = [ui EXCEPT !.agentMessages =
                 PrependAndSlice(server.messages + 1, @, AGENT_MESSAGE_LIMIT)]
    /\ UNCHANGED pipelineVars

\* ws.onmessage, type trade
TradeReceived ==
    /\ server.trades < MaxTrades
    /\ server' = [server EXCEPT !.trades = @ + 1]
    /\ ui' = [ui EXCEPT !.tradeRecords =
                 PrependAndSlice(server.trades + 1, @, TRADE_RECORD_LIMIT)]
    /\ UNCHANGED pipelineVars

\* fetchData, on mount and every 5 seconds: a trade book that is not empty
\* replaces the trade records
fetchData ==
    /\ server.trades > 0
    /\ ui' = [ui EXCEPT !.tradeRecords = TradeBook(server.trades)]
    /\ UNCHANGED <<server, pipelineVars>>

InitDashboard ==
    /\ PipelineUnused
    /\ \E n \in TradesBeforeMount : server = [messages |-> 0, trades |-> n]
    /\ ui = [agentMessages |-> <<>>, tradeRecords |-> <<>>]

NextDashboard == AgentMessageReceived \/ TradeReceived \/ fetchData

SpecDashboard == InitDashboard /\ [][NextDashboard]_vars

----------------------------------------------------------------------------
(* Claims about the Risk Auditor *)

\* the rule of section 4.6 a blocking reason belongs to
SpecRule(reason) ==
    CASE reason = "zero_balance" -> 2
      [] reason = "regime_filter" -> 3
      [] reason = "short_guard" -> 4
      [] reason = "position_filter" -> 5
      [] reason = "oscillator_conflict" -> 6
      [] reason = "rr_ratio" -> 7
      [] reason \in {"duplicate_position", "reverse_position"} -> 8
      [] reason \in {"margin", "leverage"} -> 10
      [] reason = "market_trap" -> 12
      [] OTHER -> 0

\* whether the block condition of rule k holds on the inputs the audit has consulted
RuleHolds(k) ==
    CASE k = 2 -> ZeroBalance(acct)
      [] k = 3 -> "regime" \in seen /\ RegimeBlocks(dec, ctx)
      [] k = 4 -> "strong_setup" \in seen /\ ShortGuardBlocks(dec, ctx)
      [] k = 5 -> "position_pct" \in seen /\ PositionBlocks(dec, ctx)
      [] k = 6 -> "oscillator" \in seen /\ OscillatorBlocks(dec, ctx)
      [] k = 7 -> RewardRiskBlocks(dec)
      [] k = 8 -> DuplicateBlocks(dec, acct) \/ ReverseBlocks(dec, acct)
      [] k = 10 -> "size" \in seen /\ (MarginBlocks(dec, acct) \/ LeverageBlocks(dec))
      [] k = 12 -> "traps" \in seen /\ TrapBlocks(dec, ctx)
      [] OTHER -> FALSE

\* whether the audit has consulted every input rule k's block condition reads
RuleEvaluated(k) ==
    CASE k = 3 -> "regime" \in seen
      [] k = 4 -> dec.action # "short" \/ "strong_setup" \in seen
      [] k = 5 -> "position_pct" \in seen
      [] k = 6 -> "oscillator" \in seen
      [] k = 10 -> "size" \in seen
      [] k = 12 -> "traps" \in seen
      [] k = 2 -> "balance" \in seen
      [] k = 8 -> "position" \in seen
      [] OTHER -> TRUE

BlockingRules == {2, 3, 4, 5, 6, 7, 8, 10, 12}

AuditEnded == pc \in {"execute", "done"}

\* C1: the deciding blocking reason is the reason of the earliest rule of the
\* order (1)..(12) whose block condition holds: a blocked verdict names a rule
\* whose condition holds while every earlier rule was evaluated and did not
\* block, a passed non-hold verdict means every rule was evaluated and none
\* blocks, and a decision that triggers rules 4 and 7 and none before them is
\* reported as rule 4.
C1_EarliestRuleDecides ==
    AuditEnded =>
        /\ verdict.status = "block" =>
              /\ SpecRule(verdict.reason) \in BlockingRules
              /\ RuleHolds(SpecRule(verdict.reason))
              /\ \A j \in BlockingRules : j < SpecRule(verdict.reason) =>
                     RuleEvaluated(j) /\ ~RuleHolds(j)
        /\ (verdict.status = "pass" /\ ~IsHold(dec)) =>
              \A j \in BlockingRules : RuleEvaluated(j) /\ ~RuleHolds(j)
        /\ (~IsHold(dec) /\ RuleHolds(4) /\ RuleHolds(7) /\ ~RuleHolds(2) /\ ~RuleHolds(3))
              => verdict.status = "block" /\ verdict.reason = "short_guard"

C1_Witness ==
    /\ pc = "done"
    /\ verdict.status = "block"
    /\ verdict.reason = "short_guard"
    /\ RewardRiskBlocks(dec)

\* C2: a long or short submitted while a position in the opposite direction
\* exists is never passed, and its final verdict is block, whatever the
\* confidence, regime, balance, stop-loss and trap flags.
C2_ReverseAlwaysBlocked ==
    (dec.action \in {"long", "short"} /\ acct.position \in {"long", "short"}
        /\ acct.position # dec.action)
    => /\ verdict.status # "pass"
       /\ AuditEnded => verdict.status = "block"
       /\ order.side = "none"

C2_Witness ==
    /\ pc = "done"
    /\ dec.action = "short"
    /\ acct.position = "long"
    /\ dec.confidence = Pct(85)
    /\ ctx.regime = "trending_down"
    /\ verdict.status = "block"
    /\ verdict.reason = "reverse_position"

\* C3: a long whose proposed stop is at or above entry is not blocked for it:
\* if the audit ends in a block, a blocking rule's condition holds, and otherwise
\* the verdict is pass and carries the corrected stop
\* entry - clamp(1.5 x ATR, 0.2 % of entry, 2.5 % of entry).
C3_WrongSideStopCorrected ==
    (pc = "done" /\ dec.action = "long" /\ dec.stop_loss >= dec.entry) =>
        /\ verdict.status \in {"pass", "block"}
        /\ verdict.status = "block" => RuleHolds(SpecRule(verdict.reason))
        /\ (\A j \in 2..12 : ~RuleHolds(j)) =>
              /\ verdict.status = "pass"
              /\ verdict.corrected
              /\ verdict.stop_loss =
                     dec.entry - Clamp((15 * dec.atr) \div 10,
                                       (dec.entry * 20) \div 10000,
                                       (dec.entry * 250) \div 10000)
              /\ order.stop_loss = verdict.stop_loss

C3_Witness ==
    /\ pc = "done"
    /\ dec.action = "long"
    /\ dec.stop_loss > dec.entry
    /\ dec.atr = 40
    /\ verdict.status = "pass"
    /\ verdict.stop_loss = dec.entry - 25
    /\ order.side = "long"

\* C4: correcting the stop produced by a first correction (same entry, ATR and
\* direction) returns that same stop and finds nothing to correct.
C4_CorrectionIdempotent ==
    (pc = CheckAfter("stop_loss") /\ "resubmitted" \in seen) =>
        /\ verdict.stop_loss = dec.stop_loss
        /\ ~verdict.corrected

\* a first correction that landed exactly on the maximum distance bound, run again
C4_Witness ==
    /\ pc = CheckAfter("stop_loss")
    /\ "resubmitted" \in seen
    /\ dec.atr = 40
    /\ Abs(dec.entry - dec.stop_loss) * 10000 = dec.entry * 250
    /\ verdict.stop_loss = dec.stop_loss

\* C7: a hold decision is never blocked and its verdict is pass, also with a
\* zero balance, an unknown regime, an open position or trap flags set.
C7_HoldAlwaysPasses ==
    IsHold(dec) =>
        /\ verdict.status # "block"
        /\ AuditEnded => verdict.status = "pass"

C7_Witness ==
    /\ pc = "done"
    /\ IsHold(dec)
    /\ acct.balance = 0
    /\ acct.position = "long"
    /\ ctx.regime = "unknown"
    /\ "bull_trap_risk" \in ctx.traps
    /\ verdict.status = "pass"

----------------------------------------------------------------------------
(* Claims about the Scorer and the Decision Engine *)

EngineEnded == pc \notin DecisionStages

\* the guard conditions of the claim, on the symbol's OvertradingState
GuardViolated ==
    \/ ots.cycles_since_entry < 4
    \/ ots.entries_6h >= 2
    \/ ots.loss_streak >= 2 /\ ots.cycles_since_loss < 6

\* C5: when the symbol's OvertradingState violates a guard (gap since the last
\* entry below the minimum, the 6-hour entry maximum reached, or a loss-streak
\* cooldown active), the Decision Engine returns hold, and the weighted score is
\* never evaluated, so no scores, regime or alignment produce long or short.
C5_OvertradingHoldsBeforeScoring ==
    GuardViolated =>
        /\ dec.action \notin {"long", "short"}
        /\ ~de.scored
        /\ de.alignment = "unset"
        /\ EngineEnded => dec.action = "hold" /\ de.reason = "overtrading"

\* two straight losses, one cycle short of the cooldown, on a fully bullish snapshot
C5_Witness ==
    /\ EngineEnded
    /\ ots.cycles_since_entry = 4
    /\ ots.entries_6h = 1
    /\ ots.loss_streak = 2
    /\ ots.cycles_since_loss = 5
    /\ \A t \in Timeframes : bars[t] = LongestLookback /\ raw[t].trend > 0
    /\ dec.action = "hold"
    /\ ~de.scored

\* C6: when a timeframe has fewer completed bars than the longest indicator
\* lookback, the Scorer's score of that timeframe is the insufficient-data
\* marker, a timeframe with enough bars is scored, and the Decision Engine
\* returns hold.
C6_InsufficientDataHolds ==
    /\ "scores" \in seen =>
          \A t \in Timeframes : scoreSet[t].insufficient <=> bars[t] < 60
    /\ (\E t \in Timeframes : bars[t] < 60) =>
          /\ dec.action \notin {"long", "short"}
          /\ EngineEnded => dec.action = "hold"

\* the 1h history one bar short, nothing else in the way of a trade
C6_Witness ==
    /\ EngineEnded
    /\ bars["1h"] = LongestLookback - 1
    /\ bars["15m"] = LongestLookback
    /\ raw["1h"].trend = 60
    /\ ~GuardViolated
    /\ scoreSet["1h"] = InsufficientData
    /\ ~scoreSet["15m"].insufficient
    /\ dec.action = "hold"
    /\ de.reason = "insufficient_data"

\* the long-qualifying technical inputs: trend +60 / +30 / +10 on enough bars
LongQualifyingScores ==
    /\ raw["1h"].trend = 60 /\ raw["15m"].trend = 30 /\ raw["5m"].trend = 10
    /\ \A t \in Timeframes : bars[t] >= 60

\* C10: trap flags veto only the direction they oppose: with bull-trap-risk or
\* fomo-top set the decision is never long, with panic-bottom set it is never
\* short, a proposal in the other direction is left alone, and the
\* long-qualifying scenario in a trending-up regime with bull-trap-risk set
\* ends in hold.
C10_TrapVetoesOpposedDirection ==
    "traps" \in seen =>
        /\ ("bull_trap_risk" \in ctx.traps \/ "fomo_top" \in ctx.traps) => dec.action # "long"
        /\ "panic_bottom" \in ctx.traps => dec.action # "short"
        /\ (ctx.traps = {"panic_bottom"} /\ de.proposal = "long") => dec.action = "long"
        /\ (ctx.traps \in {{"bull_trap_risk"}, {"fomo_top"}} /\ de.proposal = "short")
              => dec.action = "short"
        /\ (LongQualifyingScores /\ ctx.regime = "trending_up"
               /\ "bull_trap_risk" \in ctx.traps /\ EngineEnded)
              => dec.action = "hold"

\* the scenario: the score and alignment qualify for long, the bull trap holds it
C10_Witness ==
    /\ EngineEnded
    /\ LongQualifyingScores
    /\ \A t \in Timeframes : raw[t].osc = 0
    /\ ctx.regime = "trending_up"
    /\ de.weighted = 2190
    /\ de.alignment = "strong"
    /\ de.proposal = "long"
    /\ ctx.traps = {"bull_trap_risk"}
    /\ dec.action = "hold"
    /\ de.reason = "market_trap"

----------------------------------------------------------------------------
(* Claims about the whole cycle *)

\* C8: an order is handed to execution only if the cycle's verdict is pass: an
\* order implies a pass verdict on a long or short decision and is that
\* decision's side, and a cycle that ends with a block verdict or a hold
\* decision ends without an order.
C8_OrderOnlyOnPass ==
    /\ order.side # "none" =>
          /\ verdict.status = "pass"
          /\ dec.action \in {"long", "short"}
          /\ order.side = dec.action
    /\ (pc = "done" /\ (verdict.status = "block" \/ dec.action = "hold")) => order = NoOrder

\* a short the engine proposed, blocked by the auditor, past the executor
C8_Witness ==
    /\ pc = "done"
    /\ de.proposal = "short"
    /\ dec.action = "short"
    /\ verdict.status = "block"
    /\ order = NoOrder

\* the inputs the scenario names, as far as the cycle has read them
LongScenario ==
    /\ LongQualifyingScores
    /\ \A t \in Timeframes : raw[t].osc = 0
    /\ ~GuardViolated
    /\ "sentiment" \in seen => ~ctx.sentiment.avail
    /\ "regime" \in seen => ctx.regime = "trending_up"
    /\ "traps" \in seen => ctx.traps = {}
    /\ "balance" \in seen => acct.balance > 0
    /\ "size" \in seen => dec.size * 100 <= 95 * acct.balance * dec.leverage
    /\ "position" \in seen => acct.position = "none"

\* the inputs the scenario leaves open and the outcome depends on
LongScenarioOpenInputs ==
    /\ "prophet" \in seen => ~(ctx.prophet.avail /\ ctx.prophet.v < 0)
    /\ "volume" \in seen =>
          ctx.volume.rvol >= 5 /\ ~(ctx.volume.adx < 20 /\ ctx.volume.low_volume)
    /\ Abs(dec.take_profit - dec.entry) * 100 >= 115 * Abs(dec.entry - dec.stop_loss)

LongScenarioOutcome ==
    /\ EngineEnded => dec.action = "long" /\ dec.confidence = Pct(85)
    /\ pc = "done" => verdict.status = "pass" /\ order.side = "long"

----------------------------------------------------------------------------
(* Claims about the weighted score *)

\* C11: the weighted score is monotonic non-decreasing in each input score: of
\* two input vectors that differ in one score only, with the same availability
\* of inputs, the one with the larger score has a weighted total that is not
\* smaller.
C11_WeightedScoreMonotonic ==
    "reweighed" \in seen => dec.weighted >= de.weighted

\* the 1h trend score raised from -60 to 100 lifts the total by 0.30 x 160
C11_Witness ==
    /\ "reweighed" \in seen
    /\ scoreSet["1h"].trend = 100
    /\ dec.weighted = de.weighted + 4800

----------------------------------------------------------------------------
(* Claims about the warnings of the Risk Auditor *)

----------------------------------------------------------------------------
(* Claims about the filters and the alignment of the Decision Engine *)

\* the case of the early filter, once the engine has the regime, the position
\* and the weighted score
EarlyFilterCase ==
    /\ {"regime", "position_pct"} \subseteq seen
    /\ de.scored
    /\ ctx.regime = "choppy"
    /\ ctx.position_pct >= 40 /\ ctx.position_pct <= 60
    /\ Abs(de.weighted) < 100 * WeakSignalScore

\* C13: with a choppy regime, a position in the middle zone and an absolute
\* weighted score below the minimum, the Decision Engine returns hold, and the
\* later steps (alignment, choppy mean reversion, confidence banding) never
\* run, so none turns the hold into long or short.
C13_EarlyFilterForcesHold ==
    EarlyFilterCase =>
        /\ dec.action \notin {"long", "short"}
        /\ de.alignment = "unset"
        /\ de.proposal = "unset"
        /\ "mean_reversion" \notin seen
        /\ pc # "early_filter" => EngineEnded /\ dec.action = "hold"

\* a weak score with an oversold 1h oscillator, which mean reversion would buy
C13_Witness ==
    /\ EngineEnded
    /\ EarlyFilterCase
    /\ scoreSet["1h"].osc = 60
    /\ de.weighted > 0
    /\ de.reason = "early_filter"
    /\ dec.action = "hold"

\* the thresholds of the score-to-action mapping before any lowering
BaseLongThreshold(regime) ==
    CASE regime = "trending_up" -> 22 [] regime = "trending_down" -> 32 [] OTHER -> 30

BaseShortThreshold(regime) ==
    CASE regime = "trending_up" -> 32 [] regime = "trending_down" -> 18 [] OTHER -> 30

TrendUp(t) == scoreSet[t].trend > 0

TrendDown(t) == scoreSet[t].trend < 0

TrendsAgree(a, b) == (TrendUp(a) /\ TrendUp(b)) \/ (TrendDown(a) /\ TrendDown(b))

\* C19: alignment is strong exactly when the 1h, 15m and 5m trend scores all
\* have the same direction, partial exactly when it is not strong and the 1h
\* and 15m scores have the same direction, and none otherwise; the score
\* mapping uses the regime's thresholds lowered by 2 exactly when alignment is
\* strong or partial, and unchanged when it is none.
C19_AlignmentLowersThreshold ==
    /\ de.alignment # "unset" =>
          de.alignment =
              IF TrendsAgree("1h", "15m") /\ TrendsAgree("15m", "5m") THEN "strong"
              ELSE IF TrendsAgree("1h", "15m") THEN "partial"
              ELSE "none"
    /\ (de.proposal # "unset" /\ ~(ctx.regime = "choppy" /\ ctx.mean_reversion # "none")) =>
          LET off == IF de.alignment \in {"strong", "partial"} THEN 2 ELSE 0
              lt == 100 * (BaseLongThreshold(ctx.regime) - off)
              st == 100 * (BaseShortThreshold(ctx.regime) - off)
          IN de.proposal = IF de.weighted > lt THEN "long"
                           ELSE IF de.weighted < -st THEN "short"
                           ELSE "hold"

\* 1h and 15m up, 5m down: a score of 21.3 passes the lowered threshold of 20
C19_Witness ==
    /\ de.alignment = "partial"
    /\ scoreSet["5m"].trend < 0
    /\ ctx.regime = "trending_up"
    /\ de.weighted = 2130
    /\ de.proposal = "long"

\* the engine is past its flow-divergence step with a long or a short
PastFlowDivergence ==
    /\ pc = "params" \/ EngineEnded
    /\ dec.action \in {"long", "short"}

----------------------------------------------------------------------------
(* Claims about the Predictor *)

\* C18: in rule-based mode (configured, or fallen back to) the Predictor's
\* confidence never exceeds the cap, whatever the feature values, and both
\* probabilities stay within [0, 1].
C18_RuleConfidenceCapped ==
    (pc = "predicted" /\ ctx.prophet.mode = "rule") =>
        /\ ctx.prophet.confidence \in 0..RULE_CONFIDENCE_CAP
        /\ ctx.prophet.probability_up \in 0..100
        /\ ctx.prophet.probability_down \in 0..100

\* every bullish feature with amplifying volume: the likelier side is above
\* 0.7 and the confidence reported is the cap
C18_Witness ==
    /\ pc = "predicted"
    /\ ctx.prophet.mode = "rule"
    /\ raw.trend_confirmation >= 2 /\ raw.rsi < 30 /\ raw.volume_ratio > 15
    /\ ctx.prophet.probability_up > RULE_CONFIDENCE_CAP
    /\ ctx.prophet.confidence = RULE_CONFIDENCE_CAP

----------------------------------------------------------------------------
(* Claims about the cycle over all candidate symbols *)

\* the symbol's TradeDecision + RiskVerdict pair has been recorded
Recorded(s) == cycle.results[s].verdict.status # "pending"

\* the snapshot on which the pipeline, left alone, decides long
BullishSnapshot(s) ==
    /\ cycle.snapshots[s].bars["1h"] = LongestLookback
    /\ cycle.snapshots[s].raw["1h"].trend > 0

\* C14: a data-quality error or an unexpected exception in one symbol's
\* pipeline yields hold for that symbol only, the symbol is not evaluated a
\* second time in the cycle, and every other symbol's decision is the one its
\* own snapshot gives; a configuration error, and only that, fails the cycle,
\* and then no symbol has a long or short decision or an order.
C14_ErrorsContainedByClass ==
    /\ \A s \in CycleSymbols :
          /\ cycle.attempts[s] <= 1
          /\ (Recorded(s) /\ cycle.results[s].error \in {"data_quality", "unexpected"}) =>
                cycle.results[s].decision.action = "hold"
          /\ (Recorded(s) /\ cycle.results[s].error = "none") =>
                cycle.results[s].decision.action =
                    IF BullishSnapshot(s) THEN "long" ELSE "hold"
    /\ (cycle.current # "none" /\ cycle.results[cycle.current].error # "none") =>
          dec.action = "hold"
    /\ cycle.status = "failed" <=>
          \E s \in CycleSymbols : cycle.results[s].error = "configuration"
    /\ cycle.status = "failed" =>
          /\ dec.action \notin {"long", "short"}
          /\ \A s \in CycleSymbols :
                /\ cycle.results[s].decision.action \notin {"long", "short"}
                /\ cycle.orders[s] = NoOrder

\* one symbol held by an unexpected exception on a bullish snapshot, the other
\* decided long and approved in the same cycle
C14_Witness ==
    /\ cycle.status = "complete"
    /\ \E s, t \in CycleSymbols :
          /\ cycle.results[s].error = "unexpected"
          /\ BullishSnapshot(s)
          /\ cycle.results[s].decision.action = "hold"
          /\ cycle.results[t].error = "none"
          /\ cycle.results[t].decision.action = "long"
          /\ cycle.results[t].verdict.status = "pass"

\* C15: no stage of the decision pipeline writes OvertradingState; a symbol's
\* counters change only after the hand-over, for a symbol whose verdict was a
\* pass and whose order was placed, so a vetoed decision is never counted as
\* an entry.
C15_OnlyConfirmedTradesCounted ==
    [][ /\ pc \in PipelineStages \cup {"execute"} => store' = store
        /\ (pc \in PipelineStages /\ pc' \in PipelineStages \cup {"execute"}) => ots' = ots
        /\ \A s \in CycleSymbols :
              store'.counters[s] # store.counters[s] =>
                 /\ cycle.status = "complete"
                 /\ cycle.results[s].verdict.status = "pass"
                 /\ cycle.results[s].decision.action \in {"long", "short"}
                 /\ cycle.orders[s].side = cycle.results[s].decision.action ]_vars

\* a vetoed long whose counters are untouched next to an approved long that
\* was counted once
C15_Witness ==
    /\ cycle.status = "complete"
    /\ \E s, t \in CycleSymbols :
          /\ cycle.results[s].decision.action = "long"
          /\ cycle.results[s].verdict.status = "block"
          /\ store.counters[s] = QuietOvertrading
          /\ t \in cycle.opened
          /\ store.counters[t].entries_6h = QuietOvertrading.entries_6h + 1
          /\ store.counters[t].cycles_since_entry = 0

\* C17: once a cycle is cancelled no symbol is mid-pipeline: every symbol was
\* evaluated at most once and has either a complete TradeDecision +
\* RiskVerdict pair or nothing, and no decision is left half computed.
C17_CancelledBetweenSymbols ==
    cycle.status = "cancelled" =>
        /\ cycle.current = "none"
        /\ dec = NoDecision /\ verdict = NoVerdict /\ scoreSet = NoScoreSet
        /\ \A s \in CycleSymbols :
              /\ cycle.attempts[s] <= 1
              /\ \/ /\ cycle.attempts[s] = 1
                    /\ cycle.results[s].decision.action \in {"hold", "long", "short"}
                    /\ cycle.results[s].verdict.status \in {"pass", "block"}
                 \/ /\ cycle.attempts[s] = 0
                    /\ cycle.results[s].decision = NoDecision
                    /\ cycle.results[s].verdict = NoVerdict

\* cancelled after the first symbol: one complete pair, the other symbol
\* never started
C17_Witness ==
    /\ cycle.status = "cancelled"
    /\ \E s, t \in CycleSymbols :
          /\ cycle.results[s].decision.action = "long"
          /\ cycle.results[s].verdict.status = "pass"
          /\ cycle.attempts[t] = 0
          /\ cycle.results[t] = NoResult

----------------------------------------------------------------------------
(* Claims about the OvertradingState store *)

\* the contexts inside their critical section on symbol s
InCriticalSection(s) ==
    (IF symbol = s /\ pc \in {"read_entry", "read_window", "read_losses", "unlock"}
     THEN {"decision_engine"} ELSE {})
    \cup {w \in Writers : tasks.writer[w].symbol = s
                           /\ tasks.writer[w].pc \in {"load", "store", "unlock"}}

\* the confirmed events of a kind already stored for symbol s
Stored(s, event) ==
    Cardinality({w \in Writers : /\ tasks.writer[w].symbol = s
                                 /\ tasks.writer[w].event = event
                                 /\ tasks.writer[w].pc \in {"unlock", "done"}})

\* C16: the Decision Engine and the execution collaborator are never inside
\* one symbol's OvertradingState together; the counters the guard check has
\* read are those the store held before or after an update, never a mix of
\* the two; and every confirmed event is in the stored counters.
C16_ExclusiveStoreAccess ==
    /\ \A s \in CycleSymbols : Cardinality(InCriticalSection(s)) <= 1
    /\ pc \notin {"lock", "read_entry", "read_window", "read_losses"} =>
          ots \in tasks.versions[symbol]
    /\ \A s \in CycleSymbols :
          /\ store.counters[s].entries_6h =
                StoredOvertrading.entries_6h + Stored(s, "opened")
          /\ store.counters[s].loss_streak =
                StoredOvertrading.loss_streak + Stored(s, "closed_loss")

\* the guard read between two updates of its symbol: it saw the first opened
\* trade, and the second one was recorded afterwards
C16_Witness ==
    /\ pc \notin {"lock", "read_entry", "read_window", "read_losses", "unlock", "guard"}
    /\ ots.entries_6h = StoredOvertrading.entries_6h + 1
    /\ ots.cycles_since_entry = 0
    /\ dec.action = "hold"
    /\ store.counters[symbol].entries_6h = StoredOvertrading.entries_6h + 2
    /\ \A w \in Writers : tasks.writer[w].pc = "done"

----------------------------------------------------------------------------
(* Claims about the Regime Classifier *)

\* C21: when the measurements meet the condition of a conservative regime
\* (ADX below 20, ATR% above 2 %, or a high ADX without alignment) the regime
\* returned is one of the conservative regimes whose condition is met, never
\* trending-up or trending-down, even with a trend strength score of 70 or
\* more and a clear direction.
C21_TiesResolveConservative ==
    pc = "detected" =>
        /\ raw.adx < 20 \/ raw.atr_pct > 200 \/ (raw.adx > 25 /\ raw.ema_alignment = "none")
              => ctx.regime \in {"choppy", "volatile", "volatile_directionless"}
        /\ ctx.regime = "choppy" => raw.adx < 20
        /\ ctx.regime = "volatile" => raw.atr_pct > 200
        /\ ctx.regime \in {"trending_up", "trending_down"} =>
              /\ de.weighted >= 70
              /\ raw.ema_alignment = (IF ctx.regime = "trending_up" THEN "up" ELSE "down")

\* a strong, directed trend in a market whose ATR% is 3 %: volatile
C21_Witness ==
    /\ pc = "detected"
    /\ de.weighted = 100
    /\ raw.ema_alignment = "up"
    /\ raw.atr_pct = 300
    /\ ctx.regime = "volatile"

----------------------------------------------------------------------------
(* Claims about the kill switch *)

ConnectHandled(r) ==
    /\ r \in server.requests
    /\ r \notin server'.requests
    /\ r.kind = "connect"

BecomesConnected(a) ==
    /\ a \in DOMAIN ui'.brokerAccounts
    /\ ui'.brokerAccounts[a] = "connected"
    /\ ~(a \in DOMAIN ui.brokerAccounts /\ ui.brokerAccounts[a] = "connected")

\* C23: an account's status becomes 'connected' only in the step that handles
\* a successful answer to a /api/broker/connect request for that account with
\* a 6-digit TOTP code, and the handling of a rejected or failed connect
\* request leaves the status of every account unchanged.
C23_ConnectedOnlyAfterSuccess ==
    [][ /\ \A a \in AccountIds :
              BecomesConnected(a) =>
                 \E r \in server.requests :
                    /\ ConnectHandled(r)
                    /\ r.account_id = a
                    /\ r.totp = 6
                    /\ r.response = "ok"
        /\ \A r \in server.requests :
              (ConnectHandled(r) /\ r.response \in {"rejected", "failed"})
                 => ui'.brokerAccounts = ui.brokerAccounts ]_vars

\* C27: the step that completes a connectWithTotp request adds no account
\* to brokerAccounts: an account deleteAccount removed while the request was
\* in flight stays absent after the completion handler ran.
C27_DeletedAccountStaysDeleted ==
    [][ \A r \in server.requests :
           ConnectHandled(r) =>
              DOMAIN ui'.brokerAccounts \subseteq DOMAIN ui.brokerAccounts ]_vars

(* ------------------------------------------------------------------ *)
(* Claims about the App shell and the Login page                       *)
(* ------------------------------------------------------------------ *)

\* a login request whose handler runs in this step
LoginHandled(r) ==
    /\ r \in server.requests
    /\ r \notin server'.requests
    /\ r.kind = "login"
    /\ ui'.isLoading # ui.isLoading

\* C24: auth_token is stored and the app becomes authenticated only in the
\* step that handles a successful answer of POST /api/login to the submitted
\* credentials (or, for isAuthenticated, on mount from a token stored that
\* way), and the handling of any other outcome leaves the user
\* unauthenticated with no token stored.
C24_AuthenticatedOnlyAfterLogin ==
    [][ /\ (ui'.auth_token # "none" /\ ui.auth_token = "none")
              => \E r \in server.requests : LoginHandled(r) /\ r.response = "ok"
        /\ (ui'.isAuthenticated /\ ~ui.isAuthenticated)
              => \/ \E r \in server.requests : LoginHandled(r) /\ r.response = "ok"
                 \/ ui.auth_token = "token"
        /\ \A r \in server.requests :
              (LoginHandled(r) /\ r.response # "ok")
                 => (~ui'.isAuthenticated /\ ui'.auth_token = "none") ]_vars

\* C29: isPaused implies isRunning in every reachable state of the App.
C29_PausedImpliesRunning ==
    ui.isPaused => ui.isRunning

(* ------------------------------------------------------------------ *)
(* Claims about the Backtest page                                      *)
(* ------------------------------------------------------------------ *)

\* C25: after any sequence of addTab, closeTab and tab selections the number
\* of tabs is at least 1 and at most MAX_TABS (5).
C25_TabCountWithinLimits ==
    /\ Len(ui.tabs) >= 1
    /\ Len(ui.tabs) <= 5

\* the bar is full again after a tab was closed
C25_Witness ==
    /\ Len(ui.tabs) = 5
    /\ ui.tabCounter = 6

\* C30: activeTab is always the id of a tab in the list; a new tab gets an id
\* greater than every id issued before, so no id is used twice; and closing
\* the active tab makes the first remaining tab the active one.
C30_ActiveTabValidIdsFresh ==
    [][ /\ \E i \in 1..Len(ui.tabs) : ui.tabs[i].id = ui.activeTab
        /\ \E i \in 1..Len(ui'.tabs) : ui'.tabs[i].id = ui'.activeTab
        /\ \A i \in 1..Len(ui.tabs) : ui.tabs[i].id <= ui.tabCounter
        /\ \A i, j \in 1..Len(ui'.tabs) : i < j => ui'.tabs[i].id < ui'.tabs[j].id
        /\ \A i \in 1..Len(ui'.tabs) :
              (\A j \in 1..Len(ui.tabs) : ui.tabs[j].id # ui'.tabs[i].id)
                 => ui'.tabs[i].id > ui.tabCounter
        /\ (Len(ui'.tabs) < Len(ui.tabs)
              /\ \A i \in 1..Len(ui'.tabs) : ui'.tabs[i].id # ui.activeTab)
                 => ui'.activeTab = ui'.tabs[1].id ]_vars

\* the active tab was closed while a tab issued earlier and one issued later
\* remain
C30_Witness ==
    /\ ui.tabCounter >= 3
    /\ Len(ui.tabs) = 2
    /\ ui.tabs[1].id > 1
    /\ ui.activeTab = ui.tabs[1].id
    /\ ui.tabs[2].id = ui.tabCounter

\* a run that returns in this step
RunReturns(r) ==
    /\ r \in server.runs
    /\ r \notin server'.runs

IdleTabs(tabList) == {tabList[i].id : i \in {j \in 1..Len(tabList) : tabList[j].status = "idle"}}

\* C26: a tab that is idle stays idle until Run is pressed on it: while it is
\* idle no run sets its status, stores a result for it or writes its
\* progress, and a run of an idle (stopped) tab that returns appends nothing
\* to the history.
C26_StoppedRunStaysStopped ==
    [][ \A t \in IdleTabs(ui.tabs) :
           (\A r \in server'.runs : r \in server.runs \/ r.tab # t)
              => /\ t \in TabIdsOf(ui'.tabs) => t \in IdleTabs(ui'.tabs)
                 /\ (t \in ui'.tabResults) = (t \in ui.tabResults)
                 /\ ui'.tabProgress[t] = ui.tabProgress[t]
                 /\ \A r \in server.runs :
                       (RunReturns(r) /\ r.tab = t) => ui'.history = ui.history ]_vars

(* ------------------------------------------------------------------ *)
(* Claims about the Dashboard                                          *)
(* ------------------------------------------------------------------ *)

NewestFirst(list) == \A i, j \in 1..Len(list) : i < j => list[i] > list[j]

\* C28: after any interleaving of WebSocket messages and polls of
\* /api/trades the trade-record list holds at most 100 entries and the
\* agent-message list at most 50, each with the newest entry first.
C28_ListsCapped ==
    /\ Len(ui.tradeRecords) <= 100
    /\ Len(ui.agentMessages) <= 50
    /\ NewestFirst(ui.tradeRecords)
    /\ NewestFirst(ui.agentMessages)

====
